---- MODULE Spec2Model ----
(***************************************************************************)
(* Model of the accounting front end: the reducer-based account store of   *)
(* contexts/AppContext.tsx, the transaction normalizer, the workbook        *)
(* upload path of pages/UploadPage.tsx and the editor handlers that save    *)
(* transactions into the store.                                             *)
(*                                                                          *)
(* JavaScript values are tagged records, so that the coercions the code     *)
(* relies on (truthiness, typeof, Number(), Object.values()) are computed   *)
(* the way the language computes them and not assumed.                      *)
(***************************************************************************)
EXTENDS Integers, Sequences, FiniteSets, TLC

VARIABLES
    accounts,        \* AppState.accounts: sequence of account records
    currentAccount,  \* AppState.currentAccount: Null or a string value
    isLoading,       \* AppState.isLoading
    error,           \* AppState.error: Null or a string value
    isBackendReady,  \* AppState.isBackendReady
    storage,         \* localStorage["accountingAppState"]: NoSnapshot or a snapshot
    edits,           \* number of editor saves so far (bounded by MaxEdits)
    page,            \* the route on screen: "upload", "editor" or "reports"
    last,            \* the last operation performed, for reachability witnesses
    rawTx,           \* input of the last normalizeTransaction call (SpecNorm)
    normOut,         \* its outcome: Thrown or the normalized transaction
    reportTxs,       \* transaction list handed to generateReports (SpecReport)
    reportOut,       \* the report it returned
    fileWorkbook,    \* workbook handed to handleFileUpload (SpecParse)
    fileOutcome,     \* what handleFileUpload made of it
    isSaving,        \* EditorPage isSaving: an export request is in flight
    toast,           \* the last toast shown by the export handler
    phase,           \* AppProvider: "mounting", "render", "effect", "idle" or "crashed"
    queue,           \* dispatched actions the provider has not rendered yet
    healthCheckInterval, \* api.ts healthCheckInterval: "none", "fast" (5 s) or "slow" (5 min)
    inFlight,        \* health checks awaiting their response, by the caller that started them
    dateValue,       \* a date cell handed to parseExcelDate
    dateOut,         \* what parseExcelDate returned for it
    timers,          \* the active health-check interval timers, counted by period
    timerRef,        \* useExportReminder timerRef.current holds a timer handle
    reminderTimers,  \* the number of active export-reminder interval timers
    isActive,        \* useExportReminder isActive state
    isReminderActive, \* settings: reminders switched on
    reminderInterval, \* settings: minutes between reminders
    editorMounted,   \* EditorPage is mounted
    isProcessing,    \* UploadPage isProcessing
    outstanding,     \* asynchronous operations awaiting their result
    expectedStore,   \* the store had every operation completed in start order
    simpleForm,      \* TransactionEditor simpleForm: the fields of the entry form
    editingId,       \* TransactionEditor editingId: the transaction the form edits, or null
    deleteConfirm    \* TransactionEditor deleteConfirm.id: the transaction awaiting confirmation, or null

vars == <<accounts, currentAccount, isLoading, error, isBackendReady,
          storage, edits, page, last, rawTx, normOut, reportTxs, reportOut,
          fileWorkbook, fileOutcome, isSaving, toast, phase, queue,
          healthCheckInterval, inFlight, dateValue, dateOut, timers,
          timerRef, reminderTimers, isActive, isReminderActive, reminderInterval,
          editorMounted, isProcessing, outstanding, expectedStore,
          simpleForm, editingId, deleteConfirm>>

storeVars == <<accounts, currentAccount, isLoading, error, isBackendReady>>
appVars == <<storeVars, storage, edits, page, last>>
normVars == <<rawTx, normOut>>
reportVars == <<reportTxs, reportOut>>
parseVars == <<fileWorkbook, fileOutcome>>
exportVars == <<isSaving, toast>>
providerVars == <<phase, queue>>
healthVars == <<healthCheckInterval, inFlight, timers>>
NoTimers == [fast |-> 0, slow |-> 0]
\* SettingsContext defaultSettings: reminders on, every 5 minutes
defaultSettings == [isReminderActive |-> TRUE, reminderInterval |-> 5]
dateVars == <<dateValue, dateOut>>
reminderVars == <<timerRef, reminderTimers, isActive, isReminderActive, reminderInterval,
                  editorMounted>>
raceVars == <<isProcessing, outstanding, expectedStore>>
editorVars == <<simpleForm, editingId, deleteConfirm>>
pureVars == <<normVars, reportVars, parseVars, exportVars, providerVars, healthVars, dateVars, reminderVars, raceVars, editorVars>>
NoChecks == [initial |-> 0, periodic |-> 0]

NoToast == [kind |-> "none", message |-> ""]

-----------------------------------------------------------------------------
(* JavaScript values *)

Num(n) == [t |-> "number", v |-> n]
NaN == [t |-> "NaN"]
Str(s) == [t |-> "string", s |-> s]
\* a "YYYY-MM-DD" string, kept as its three numbers
IsoDate(y, m, d) == [t |-> "string", s |-> "YYYY-MM-DD", y |-> y, m |-> m, d |-> d]
Null == [t |-> "null"]
Undef == [t |-> "undefined"]
Obj(m) == [t |-> "object", m |-> m]
Entry(k, v) == [k |-> k, v |-> v]
EmptyObj == Obj(<<>>)

\* typeof v
TypeOf(v) ==
    CASE v.t = "number" -> "number"
      [] v.t = "NaN" -> "number"
      [] v.t = "string" -> "string"
      [] v.t = "undefined" -> "undefined"
      [] OTHER -> "object"

\* ToBoolean(v), as used by `v || d` and `v && w`
Truthy(v) ==
    CASE v.t = "number" -> v.v # 0
      [] v.t = "string" -> v.s # ""
      [] v.t = "object" -> TRUE
      [] v.t = "tx" -> TRUE
      [] OTHER -> FALSE

\* v || d
OrElse(v, d) == IF Truthy(v) THEN v ELSE d

\* Number(s) for the strings of the model's vocabulary
StrToNum(s) ==
    CASE s = "" -> Num(0)
      [] s = "0" -> Num(0)
      [] s = "1" -> Num(1)
      [] s = "2" -> Num(2)
      [] s = "3" -> Num(3)
      [] s = "4" -> Num(4)
      [] s = "5" -> Num(5)
      [] s = "12" -> Num(12)
      [] OTHER -> NaN

\* Number(v)
ToNumber(v) ==
    CASE v.t = "number" -> v
      [] v.t = "NaN" -> NaN
      [] v.t = "string" -> StrToNum(v.s)
      [] v.t = "null" -> Num(0)
      [] OTHER -> NaN

\* Number(v) || 0, as an integer
NumOr0(v) == IF ToNumber(v).t = "number" THEN ToNumber(v).v ELSE 0

\* the characters of a string of the model's vocabulary
StrChars(s) ==
    CASE s = "" -> <<>>
      [] s = "12" -> <<Str("1"), Str("2")>>
      [] s = "abc" -> <<Str("a"), Str("b"), Str("c")>>
      [] OTHER -> <<Str(s)>>

\* Object.values(v): own enumerable property values
ObjectValues(v) ==
    CASE v.t = "object" -> [i \in 1..Len(v.m) |-> v.m[i].v]
      [] v.t = "string" -> StrChars(v.s)
      [] OTHER -> <<>>

RECURSIVE SumNumOr0(_)
\* values.reduce((sum, val) => sum + (Number(val) || 0), 0)
SumNumOr0(vals) ==
    IF vals = <<>> THEN 0
    ELSE NumOr0(Head(vals)) + SumNumOr0(Tail(vals))

-----------------------------------------------------------------------------
(* Transactions *)

\* a transaction object; an absent property is Undef
Tx(id, tanggal, uraian, penerimaan, pengeluaran, jumlah, saldo) ==
    [t |-> "tx", id |-> id, tanggal |-> tanggal, uraian |-> uraian,
     penerimaan |-> penerimaan, pengeluaran |-> pengeluaran,
     jumlah |-> jumlah, saldo_berjalan |-> saldo]

\* tx.penerimaan etc.: a primitive record has none of the properties
Prop(tx, f) == IF tx.t = "tx" THEN tx[f] ELSE Undef

\* reading a property of null or undefined throws a TypeError
Nullish(v) == v.t \in {"null", "undefined"}

\* new Date().toISOString().split('T')[0]
Today == IsoDate(2026, 1, 1)

\* SimpleFormData: the fields of the editor's entry form
Form(tanggal, tipe, kategori, uraian, jumlah) ==
    [tanggal |-> tanggal, tipe |-> tipe, kategori |-> kategori,
     uraian |-> uraian, jumlah |-> jumlah]

\* the form of a freshly mounted TransactionEditor
emptyForm == Form(Today, "penerimaan", "", "", "0")

\* the form after a save
resetForm == Form(Today, "penerimaan", "", "", "")

\* the id Math.random() produces for the i-th transaction of a list
RandomId(i) ==
    CASE i = 1 -> "tx-r1"
      [] i = 2 -> "tx-r2"
      [] i = 3 -> "tx-r3"
      [] OTHER -> "tx-r4"

\* income minus expense of one transaction, as calculateAccountBalance and
\* the editor compute it
NetOf(tx) ==
    SumNumOr0(ObjectValues(OrElse(Prop(tx, "penerimaan"), EmptyObj)))
    - SumNumOr0(ObjectValues(OrElse(Prop(tx, "pengeluaran"), EmptyObj)))

RECURSIVE SumNet(_)
SumNet(txs) ==
    IF txs = <<>> THEN 0 ELSE NetOf(Head(txs)) + SumNet(Tail(txs))

\* calculateAccountBalance throws when a list element is null or undefined
BalanceThrows(txs) == \E i \in 1..Len(txs) : Nullish(txs[i])

calculateAccountBalance(txs) == SumNet(txs)

\* one branch of "Handle penerimaan" / "Handle pengeluaran"
NormalizeMap(v, defaultCategory) ==
    IF TypeOf(v) = "string"
    THEN Obj(<<Entry(defaultCategory, Num(NumOr0(v)))>>)
    ELSE IF Truthy(v) /\ TypeOf(v) = "object"
         THEN Obj([i \in 1..Len(v.m) |-> Entry(v.m[i].k, Num(NumOr0(v.m[i].v)))])
         ELSE EmptyObj

\* a normalizer that always generates the id
normalizeTransactionFreshId(tx, rnd) ==
    LET pen == NormalizeMap(Prop(tx, "penerimaan"), "Penerimaan")
        peng == NormalizeMap(Prop(tx, "pengeluaran"), "Pengeluaran")
    IN Tx(Str(rnd),
          OrElse(Prop(tx, "tanggal"), Today),
          OrElse(Prop(tx, "uraian"), Str("")),
          pen, peng,
          Num(SumNumOr0(ObjectValues(pen)) - SumNumOr0(ObjectValues(peng))),
          Num(0))

normalizeTransaction(tx, rnd) ==
    LET pen == NormalizeMap(Prop(tx, "penerimaan"), "Penerimaan")
        peng == NormalizeMap(Prop(tx, "pengeluaran"), "Pengeluaran")
    IN Tx(OrElse(Prop(tx, "id"), Str(rnd)),
          OrElse(Prop(tx, "tanggal"), Today),
          OrElse(Prop(tx, "uraian"), Str("")),
          pen, peng,
          Num(SumNumOr0(ObjectValues(pen)) - SumNumOr0(ObjectValues(peng))),
          Num(0))


\* property access on the record throws before anything else is done
NormalizeThrows(tx) == Nullish(tx)

-----------------------------------------------------------------------------
(* The store: appReducer *)

Account(name, id, txs, balance) ==
    [name |-> name, id |-> id, transactions |-> txs, balance |-> balance]

State(accs, cur, loading, err, ready) ==
    [accounts |-> accs, currentAccount |-> cur, isLoading |-> loading,
     error |-> err, isBackendReady |-> ready]

initialState == State(<<>>, Null, FALSE, Null, TRUE)

\* the generated name of ADD_ACCOUNT, `Akun Baru ${n}`
AkunBaru(n) ==
    CASE n = 1 -> "Akun Baru 1"
      [] n = 2 -> "Akun Baru 2"
      [] n = 3 -> "Akun Baru 3"
      [] OTHER -> "Akun Baru 4"

createAccount(name, txs) ==
    Account(name, Undef,
            [i \in 1..Len(txs) |-> normalizeTransaction(txs[i], RandomId(i))],
            calculateAccountBalance(txs))

HasName(accs, name) == \E i \in 1..Len(accs) : accs[i].name = name

SetAccounts(payload) == [type |-> "SET_ACCOUNTS", payload |-> payload]
SetCurrentAccount(payload) == [type |-> "SET_CURRENT_ACCOUNT", payload |-> payload]
UpdateAccount(name, txs) ==
    [type |-> "UPDATE_ACCOUNT", accountName |-> name, transactions |-> txs]
AddAccount(payload) == [type |-> "ADD_ACCOUNT", payload |-> payload]
SetLoading(b) == [type |-> "SET_LOADING", payload |-> b]
SetError(e) == [type |-> "SET_ERROR", payload |-> e]
SetBackendReady(b) == [type |-> "SET_BACKEND_READY", payload |-> b]

\* the name ADD_ACCOUNT gives the new account
AddedName(state, payload) ==
    IF payload.name # "" THEN payload.name
    ELSE AkunBaru(Len(state.accounts) + 1)

\* SET_ACCOUNTS that trusts the balance carried in the payload
ReduceSetAccountsKeepBalance(state, payload) ==
    [state EXCEPT
       !.accounts = payload,
       !.currentAccount =
           IF Truthy(state.currentAccount) THEN state.currentAccount
           ELSE IF Len(payload) > 0 /\ payload[1].name # "" THEN Str(payload[1].name)
                ELSE Null,
       !.isLoading = FALSE,
       !.error = Null]

ReduceSetAccounts(state, payload) ==
    LET accs == [i \in 1..Len(payload) |->
                    [payload[i] EXCEPT
                       !.balance = calculateAccountBalance(payload[i].transactions)]]
    IN [state EXCEPT
          !.accounts = accs,
          !.currentAccount =
              IF Truthy(state.currentAccount) THEN state.currentAccount
              ELSE IF Len(accs) > 0 /\ accs[1].name # "" THEN Str(accs[1].name)
                   ELSE Null,
          !.isLoading = FALSE,
          !.error = Null]

\* UPDATE_ACCOUNT that also makes the updated account current
ReduceUpdateAccountSelects(state, name, txs) ==
    [state EXCEPT
       !.accounts = [i \in 1..Len(state.accounts) |->
                        IF state.accounts[i].name = name
                        THEN Account(name, Undef,
                                     [j \in 1..Len(txs) |->
                                         normalizeTransaction(txs[j], RandomId(j))],
                                     calculateAccountBalance(txs))
                        ELSE state.accounts[i]],
       !.currentAccount = Str(name)]

ReduceUpdateAccount(state, name, txs) ==
    [state EXCEPT
       !.accounts = [i \in 1..Len(state.accounts) |->
                        IF state.accounts[i].name = name
                        THEN createAccount(name, txs)
                        ELSE state.accounts[i]]]

\* ADD_ACCOUNT that appends the account without making it current
ReduceAddAccountKeepsCurrent(state, payload) ==
    IF HasName(state.accounts, AddedName(state, payload)) THEN state
    ELSE [state EXCEPT
            !.accounts = Append(state.accounts,
                                createAccount(AddedName(state, payload),
                                              payload.transactions))]

\* ADD_ACCOUNT without the duplicate-name check
ReduceAddAccountNoCheck(state, payload) ==
    [state EXCEPT
       !.accounts = Append(state.accounts,
                           Account(IF payload.name # "" THEN payload.name
                                   ELSE AkunBaru(Len(state.accounts) + 1),
                                   Undef,
                                   [j \in 1..Len(payload.transactions) |->
                                       normalizeTransaction(payload.transactions[j],
                                                            RandomId(j))],
                                   calculateAccountBalance(payload.transactions))),
       !.currentAccount = Str(IF payload.name # "" THEN payload.name
                              ELSE AkunBaru(Len(state.accounts) + 1))]

ReduceAddAccount(state, payload) ==
    LET accountName == AddedName(state, payload)
    IN IF HasName(state.accounts, accountName) THEN state
       ELSE [state EXCEPT
               !.accounts = Append(state.accounts,
                                   createAccount(accountName, payload.transactions)),
               !.currentAccount = Str(accountName)]

appReducer(state, action) ==
    CASE action.type = "SET_ACCOUNTS" -> ReduceSetAccounts(state, action.payload)
      [] action.type = "SET_CURRENT_ACCOUNT" ->
            [state EXCEPT !.currentAccount = action.payload]
      [] action.type = "UPDATE_ACCOUNT" ->
            ReduceUpdateAccount(state, action.accountName, action.transactions)
      [] action.type = "ADD_ACCOUNT" -> ReduceAddAccount(state, action.payload)
      [] action.type = "SET_LOADING" -> [state EXCEPT !.isLoading = action.payload]
      [] action.type = "SET_ERROR" ->
            [state EXCEPT !.error = action.payload, !.isLoading = FALSE]
      [] action.type = "SET_BACKEND_READY" ->
            [state EXCEPT !.isBackendReady = action.payload]
      [] OTHER -> state

\* the reducer call throws (a TypeError from a null or undefined transaction)
ReducerThrows(state, action) ==
    CASE action.type = "SET_ACCOUNTS" ->
            \E i \in 1..Len(action.payload) :
                BalanceThrows(action.payload[i].transactions)
      [] action.type = "UPDATE_ACCOUNT" ->
            /\ HasName(state.accounts, action.accountName)
            /\ \E i \in 1..Len(action.transactions) :
                  NormalizeThrows(action.transactions[i])
      [] action.type = "ADD_ACCOUNT" ->
            /\ ~HasName(state.accounts, AddedName(state, action.payload))
            /\ \E i \in 1..Len(action.payload.transactions) :
                  NormalizeThrows(action.payload.transactions[i])
      [] OTHER -> FALSE

\* the store as one record
StoreState == State(accounts, currentAccount, isLoading, error, isBackendReady)

RECURSIVE ReduceAll(_, _)
\* the state after a batch of dispatched actions
ReduceAll(state, actions) ==
    IF actions = <<>> THEN state
    ELSE ReduceAll(appReducer(state, Head(actions)), Tail(actions))

RECURSIVE AnyThrows(_, _)
AnyThrows(state, actions) ==
    IF actions = <<>> THEN FALSE
    ELSE \/ ReducerThrows(state, Head(actions))
         \/ AnyThrows(appReducer(state, Head(actions)), Tail(actions))

\* JSON.parse(JSON.stringify(v)): NaN becomes null, an undefined property
\* is dropped (and reads back as undefined)
RECURSIVE JsonValue(_)
JsonValue(v) ==
    CASE v.t = "NaN" -> Null
      [] v.t = "object" ->
            Obj([i \in 1..Len(v.m) |-> Entry(v.m[i].k, JsonValue(v.m[i].v))])
      [] v.t = "tx" ->
            Tx(JsonValue(v.id), JsonValue(v.tanggal), JsonValue(v.uraian),
               JsonValue(v.penerimaan), JsonValue(v.pengeluaran),
               JsonValue(v.jumlah), JsonValue(v.saldo_berjalan))
      [] OTHER -> v

JsonAccounts(accs) ==
    [i \in 1..Len(accs) |->
        [accs[i] EXCEPT
           !.id = JsonValue(@),
           !.transactions = [j \in 1..Len(@) |-> JsonValue(@[j])]]]

\* the save effect: localStorage.setItem(key, JSON.stringify({accounts, currentAccount}))
Snapshot(state) ==
    [accounts |-> JsonAccounts(state.accounts),
     currentAccount |-> JsonValue(state.currentAccount)]

\* the provider renders the reduced state and the save effect writes its snapshot
Commit(s) ==
    /\ accounts' = s.accounts
    /\ currentAccount' = s.currentAccount
    /\ isLoading' = s.isLoading
    /\ error' = s.error
    /\ isBackendReady' = s.isBackendReady
    /\ storage' = Snapshot(s)

\* dispatch of a batch of actions; a reducer call that throws takes the render
\* down, which is outside the model
Dispatch(actions) ==
    /\ ~AnyThrows(StoreState, actions)
    /\ Commit(ReduceAll(StoreState, actions))

-----------------------------------------------------------------------------
(* Bounds and input domains *)

\* longest transaction list handed to the store in one payload
MaxTx == 2

\* editor saves per run
MaxEdits == 2

SeqsUpTo(S, n) == UNION {[1..k -> S] : k \in 0..n}

TxCanon ==
    Tx(Str("t1"), IsoDate(2024, 1, 10), Str("Gaji"),
       Obj(<<Entry("gaji", Num(5))>>), EmptyObj, Num(5), Num(5))

TxCanon2 ==
    Tx(Str("t4"), IsoDate(2024, 1, 5), Str("Sewa"),
       EmptyObj, Obj(<<Entry("sewa", Num(3))>>), Num(-3), Num(2))

\* legacy format: income as one string, nothing else but the id
TxLegacy ==
    Tx(Str("t2"), Undef, Undef, Str("12"), Undef, Undef, Undef)

\* an amount field that disagrees with the maps
TxStale ==
    Tx(Str("t3"), IsoDate(2024, 1, 5), Str("Sewa"),
       Obj(<<Entry("gaji", Num(5))>>), Obj(<<Entry("sewa", Num(3))>>),
       Num(7), Num(7))

StoreTxs == {TxCanon, TxLegacy, TxStale}
StoreTxLists == SeqsUpTo(StoreTxs, MaxTx)
StoreNames == {"Kas", "Bank"}

\* payload accounts carry a balance of their own, which the store must not trust
PayloadAccounts ==
    {Account(n, Undef, txs, 99) : n \in StoreNames, txs \in StoreTxLists}

SetAccountsPayloads ==
    {<<>>} \cup {<<a>> : a \in PayloadAccounts}
           \cup {<<a, b>> : a \in PayloadAccounts,
                            b \in {c \in PayloadAccounts : c.name = "Bank"}}

CurrentPayloads == {Null, Str("Kas"), Str("Bank")}

AddPayloads ==
    {Account(n, Undef, txs, 99) : n \in StoreNames \cup {""}, txs \in StoreTxLists}

\* store states the dispatches of SpecStore start from, each built by the
\* reducer from initialState
PreStates ==
    {ReduceAll(initialState, <<SetAccounts(p), SetCurrentAccount(c)>>) :
        p \in {<<>>,
               <<Account("Kas", Undef, <<TxCanon>>, 99)>>,
               <<Account("Kas", Undef, <<TxCanon, TxCanon2>>, 99),
                 Account("Bank", Undef, <<>>, 99)>>},
        c \in CurrentPayloads}
    \cup
    {ReduceAll(initialState, <<AddAccount(a), AddAccount(b)>>) :
        a \in {Account("Kas", Undef, <<TxCanon, TxCanon2>>, 0)},
        b \in {Account("Kas", Undef, <<>>, 0), Account("Bank", Undef, <<TxCanon>>, 0),
               Account("", Undef, <<>>, 0)}}

-----------------------------------------------------------------------------
(* SpecStore: one dispatch to the reducer, from any of PreStates *)

NoOp == [type |-> "INIT"]

InitStore ==
    /\ \E pre \in PreStates :
          /\ accounts = pre.accounts
          /\ currentAccount = pre.currentAccount
          /\ isLoading \in BOOLEAN
          /\ error \in {Null, Str("Failed to save data")}
          /\ isBackendReady = pre.isBackendReady
          /\ storage = Snapshot(pre)
    /\ edits = 0
    /\ page = "upload"
    /\ last = NoOp
    /\ rawTx = Undef
    /\ normOut = Undef
    /\ reportTxs = <<>>
    /\ reportOut = Undef
    /\ fileWorkbook = <<>>
    /\ fileOutcome = Undef
    /\ isSaving = FALSE
    /\ toast = NoToast
    /\ phase = "idle"
    /\ queue = <<>>
    /\ healthCheckInterval = "none"
    /\ inFlight = NoChecks
    /\ timers = NoTimers
    /\ timerRef = FALSE
    /\ reminderTimers = 0
    /\ isActive = FALSE
    /\ isReminderActive = defaultSettings.isReminderActive
    /\ reminderInterval = defaultSettings.reminderInterval
    /\ editorMounted = FALSE
    /\ isProcessing = FALSE
    /\ outstanding = <<>>
    /\ simpleForm = emptyForm
    /\ editingId = Null
    /\ deleteConfirm = Null
    /\ expectedStore = Undef
    /\ dateValue = Undef
    /\ dateOut = Undef

\* the dispatch is recorded in `last`
Dispatched(action) ==
    /\ Dispatch(<<action>>)
    /\ last' = action
    /\ UNCHANGED <<edits, page, pureVars>>

DispatchSetAccounts ==
    /\ last = NoOp
    /\ \E p \in SetAccountsPayloads : Dispatched(SetAccounts(p))

DispatchSetCurrentAccount ==
    /\ last = NoOp
    /\ \E c \in CurrentPayloads : Dispatched(SetCurrentAccount(c))

DispatchUpdateAccount ==
    /\ last = NoOp
    /\ \E n \in StoreNames, txs \in StoreTxLists : Dispatched(UpdateAccount(n, txs))

DispatchAddAccount ==
    /\ last = NoOp
    /\ \E p \in AddPayloads : Dispatched(AddAccount(p))

DispatchSetLoading ==
    /\ last = NoOp
    /\ \E b \in BOOLEAN : Dispatched(SetLoading(b))

DispatchSetError ==
    /\ last = NoOp
    /\ \E e \in {Null, Str("Failed to load saved data")} : Dispatched(SetError(e))

DispatchSetBackendReady ==
    /\ last = NoOp
    /\ \E b \in BOOLEAN : Dispatched(SetBackendReady(b))

NextStore ==
    \/ DispatchSetAccounts
    \/ DispatchSetCurrentAccount
    \/ DispatchUpdateAccount
    \/ DispatchAddAccount
    \/ DispatchSetLoading
    \/ DispatchSetError
    \/ DispatchSetBackendReady

SpecStore == InitStore /\ [][NextStore]_vars

-----------------------------------------------------------------------------
(* Claims about the reducer, checked under SpecStore *)

\* Number(tx.jumlah) || 0 summed over a transaction list
RECURSIVE SumJumlah(_)
SumJumlah(txs) ==
    IF txs = <<>> THEN 0
    ELSE NumOr0(Prop(Head(txs), "jumlah")) + SumJumlah(Tail(txs))

\* C4: in every store state each account's balance equals the sum of the
\* amounts (jumlah) of the transactions it holds, whatever list SET_ACCOUNTS,
\* UPDATE_ACCOUNT or ADD_ACCOUNT was given.
C4_BalanceIsSumOfAmounts ==
    \A i \in 1..Len(accounts) :
        accounts[i].balance = SumJumlah(accounts[i].transactions)

\* C5: an ADD_ACCOUNT whose name is already present leaves the whole store
\* state as it was.
C5_DuplicateAddRejected ==
    [][(/\ last = NoOp
        /\ last'.type = "ADD_ACCOUNT"
        /\ HasName(accounts, AddedName(StoreState, last'.payload)))
       => UNCHANGED storeVars]_vars

\* a duplicate ADD_ACCOUNT has been dispatched: the name is present and the
\* account did not become current, as a successful add would have made it
C5_Witness ==
    /\ last.type = "ADD_ACCOUNT"
    /\ last.payload.name # ""
    /\ HasName(accounts, last.payload.name)
    /\ currentAccount # Str(last.payload.name)

\* C6: SET_ACCOUNTS replaces the account list by the payload with every balance
\* recomputed from the account's transactions, and sets currentAccount to the
\* first payload name (null for an empty payload) only when none was set.
C6_SetAccountsEffect ==
    [][(last = NoOp /\ last'.type = "SET_ACCOUNTS") =>
        LET p == last'.payload IN
        /\ Len(accounts') = Len(p)
        /\ \A i \in 1..Len(p) :
              accounts'[i] = [p[i] EXCEPT !.balance = SumNet(p[i].transactions)]
        /\ currentAccount' =
              IF currentAccount # Null THEN currentAccount
              ELSE IF p # <<>> THEN Str(p[1].name) ELSE Null]_vars

\* SET_ACCOUNTS has replaced a payload balance by the recomputed one while an
\* already-set currentAccount, naming no payload account, was kept
C6_Witness ==
    /\ last.type = "SET_ACCOUNTS"
    /\ Len(last.payload) = 2
    /\ accounts[1].balance # last.payload[1].balance
    /\ currentAccount = Str("Bank")
    /\ accounts[1].name = "Kas"

\* C7: UPDATE_ACCOUNT(name, transactions) replaces the transaction list of the
\* accounts named `name` and recomputes their balance, leaves every other
\* account, the order of accounts and currentAccount alone, and changes nothing
\* when no account has that name.
C7_UpdateAccountFrame ==
    [][(last = NoOp /\ last'.type = "UPDATE_ACCOUNT") =>
        LET n == last'.accountName
            txs == last'.transactions
        IN /\ Len(accounts') = Len(accounts)
           /\ currentAccount' = currentAccount
           /\ UNCHANGED <<isLoading, error, isBackendReady>>
           /\ \A i \in 1..Len(accounts) :
                 IF accounts[i].name = n
                 THEN /\ accounts'[i].name = n
                      /\ Len(accounts'[i].transactions) = Len(txs)
                      /\ \A j \in 1..Len(txs) :
                            accounts'[i].transactions[j].id = txs[j].id
                      /\ accounts'[i].balance = SumNet(txs)
                 ELSE accounts'[i] = accounts[i]
           /\ (~HasName(accounts, n) => UNCHANGED storeVars)]_vars

\* an UPDATE_ACCOUNT has replaced the list of one of two accounts, and the
\* current account is the other one
C7_Witness ==
    /\ last.type = "UPDATE_ACCOUNT"
    /\ Len(accounts) = 2
    /\ last.accountName = "Kas"
    /\ accounts[1].name = "Kas"
    /\ Len(accounts[1].transactions) = 2
    /\ Len(last.transactions) = 2
    /\ accounts[1].transactions[1].id = last.transactions[1].id
    /\ currentAccount = Str("Bank")

-----------------------------------------------------------------------------
(* SpecNorm: normalizeTransaction applied to one raw record *)

RawIds == {Str("t1"), Str(""), Num(7), Undef}
RawDates == {IsoDate(2024, 1, 10), Undef}
RawDescriptions == {Str("Gaji"), Str(""), Undef}
RawIncome ==
    {Undef, Null, Str("12"), Str("abc"), Num(5), EmptyObj,
     Obj(<<Entry("gaji", Num(5))>>),
     Obj(<<Entry("gaji", Str("5"))>>),
     Obj(<<Entry("gaji", Str("abc"))>>),
     Obj(<<Entry("gaji", NaN)>>),
     Obj(<<Entry("gaji", Num(5)), Entry("bonus", Num(4))>>)}
RawExpense ==
    {Undef, Str("5"), Num(2), EmptyObj, Obj(<<Entry("sewa", Num(3))>>)}
RawSaldo == {Undef, Num(0), Num(9)}

\* raw records: objects with any mix of the field values above, whose amount is
\* absent, wrong or the net of the maps; and records that are no objects
RawRecords ==
    {Null, Undef, Num(5), Str("abc")} \cup
    UNION {{Tx(id, d, u, pen, peng, j, sb) :
               j \in {Undef, Num(7),
                      Num(NetOf(Tx(id, d, u, pen, peng, Undef, sb)))}} :
           id \in RawIds, d \in RawDates, u \in RawDescriptions,
           pen \in RawIncome, peng \in RawExpense, sb \in RawSaldo}

NotRun == [t |-> "not-run"]
Thrown == [t |-> "TypeError"]

InitNorm ==
    /\ accounts = initialState.accounts
    /\ currentAccount = initialState.currentAccount
    /\ isLoading = initialState.isLoading
    /\ error = initialState.error
    /\ isBackendReady = initialState.isBackendReady
    /\ storage = Snapshot(initialState)
    /\ edits = 0
    /\ page = "upload"
    /\ last = NoOp
    /\ rawTx \in RawRecords
    /\ normOut = NotRun
    /\ reportTxs = <<>>
    /\ reportOut = Undef
    /\ fileWorkbook = <<>>
    /\ fileOutcome = Undef
    /\ isSaving = FALSE
    /\ toast = NoToast
    /\ phase = "idle"
    /\ queue = <<>>
    /\ healthCheckInterval = "none"
    /\ inFlight = NoChecks
    /\ timers = NoTimers
    /\ timerRef = FALSE
    /\ reminderTimers = 0
    /\ isActive = FALSE
    /\ isReminderActive = defaultSettings.isReminderActive
    /\ reminderInterval = defaultSettings.reminderInterval
    /\ editorMounted = FALSE
    /\ isProcessing = FALSE
    /\ outstanding = <<>>
    /\ simpleForm = emptyForm
    /\ editingId = Null
    /\ deleteConfirm = Null
    /\ expectedStore = Undef
    /\ dateValue = Undef
    /\ dateOut = Undef

Normalize ==
    /\ normOut = NotRun
    /\ normOut' = IF NormalizeThrows(rawTx) THEN Thrown
                  ELSE normalizeTransaction(rawTx, RandomId(1))
    /\ UNCHANGED <<appVars, rawTx, reportVars, parseVars, exportVars, providerVars, healthVars, dateVars, reminderVars, raceVars, editorVars>>

NextNorm == Normalize

SpecNorm == InitNorm /\ [][NextNorm]_vars

Ran == normOut # NotRun

\* every value of the map is a number (not NaN)
IsNumMap(m) ==
    /\ m.t = "object"
    /\ \A i \in 1..Len(m.m) : m.m[i].v.t = "number"

IsNonEmptyString(v) == v.t = "string" /\ v.s # ""

\* the canonical shape of section 3: id, date, description, numeric maps, the
\* amount equal to their net, and a running balance
IsCanonical(tx) ==
    /\ tx.t = "tx"
    /\ IsNonEmptyString(tx.id)
    /\ IsNonEmptyString(tx.tanggal)
    /\ tx.uraian.t = "string"
    /\ IsNumMap(tx.penerimaan)
    /\ IsNumMap(tx.pengeluaran)
    /\ tx.jumlah = Num(SumNumOr0(ObjectValues(tx.penerimaan))
                       - SumNumOr0(ObjectValues(tx.pengeluaran)))
    /\ tx.saldo_berjalan.t = "number"

\* C8 as stated: normalizing a canonical transaction returns it unchanged in
\* every field, the running balance included.
C8_NormalizeFixedPoint ==
    (Ran /\ IsCanonical(rawTx)) => normOut = rawTx

\* C8 as amended: normalizing a canonical transaction returns it with the same
\* id, date, description, income map, expense map and amount, and with
\* saldo_berjalan reset to 0.
C8_NormalizeFixedPointButSaldo ==
    (Ran /\ IsCanonical(rawTx)) =>
        normOut = [rawTx EXCEPT !.saldo_berjalan = Num(0)]

\* a canonical transaction with two income categories and a running balance of
\* 9 has been normalized
C8_Witness ==
    /\ Ran
    /\ IsCanonical(rawTx)
    /\ Len(rawTx.penerimaan.m) = 2
    /\ rawTx.saldo_berjalan = Num(9)

\* a structurally valid Transaction
IsValidTransaction(tx) ==
    /\ tx.t = "tx"
    /\ IsNonEmptyString(tx.id)
    /\ IsNonEmptyString(tx.tanggal)
    /\ tx.uraian.t = "string"
    /\ IsNumMap(tx.penerimaan)
    /\ IsNumMap(tx.pengeluaran)
    /\ tx.jumlah.t = "number"
    /\ tx.saldo_berjalan.t = "number"

\* C9: normalization is total: every raw record, a null or non-object one
\* included, yields a structurally valid transaction without throwing.
C9_NormalizeTotal ==
    Ran => (normOut # Thrown /\ IsValidTransaction(normOut))

IsScalar(v) == v.t \in {"number", "string"}

\* the map holds the one entry `category: n`
IsWrapped(m, category, n) ==
    /\ m.t = "object"
    /\ Len(m.m) = 1
    /\ m.m[1] = Entry(category, Num(n))

\* C10: an income or expense that arrives as a single number or string is
\* wrapped under the default category name, and the amount reflects it.
C10_ScalarWrapped ==
    (Ran /\ rawTx.t = "tx") =>
        /\ IsScalar(rawTx.penerimaan) =>
              IsWrapped(normOut.penerimaan, "Penerimaan", NumOr0(rawTx.penerimaan))
        /\ IsScalar(rawTx.pengeluaran) =>
              IsWrapped(normOut.pengeluaran, "Pengeluaran", NumOr0(rawTx.pengeluaran))
        /\ (IsScalar(rawTx.penerimaan) /\ IsScalar(rawTx.pengeluaran)) =>
              normOut.jumlah =
                  Num(NumOr0(rawTx.penerimaan) - NumOr0(rawTx.pengeluaran))

-----------------------------------------------------------------------------
(* Workbook upload: handleFileUpload and processAndUpdateAccounts *)

\* h.toLowerCase() for the header vocabulary
ToLower(h) ==
    CASE h = "Tanggal" -> "tanggal"
      [] h = "Uraian" -> "uraian"
      [] h = "Jumlah" -> "jumlah"
      [] h = "Penerimaan_Gaji" -> "penerimaan_gaji"
      [] h = "Pengeluaran_Sewa" -> "pengeluaran_sewa"
      [] OTHER -> h

\* h.toLowerCase().startsWith('penerimaan_')
IsPenerimaanHeader(h) == ToLower(h) \in {"penerimaan_gaji", "penerimaan_bonus"}

\* h.toLowerCase().startsWith('pengeluaran_')
IsPengeluaranHeader(h) == ToLower(h) \in {"pengeluaran_sewa"}

\* h.replace(/^penerimaan_/i, '') and h.replace(/^pengeluaran_/i, '')
CategoryOf(h) ==
    CASE h = "penerimaan_gaji" -> "gaji"
      [] h = "Penerimaan_Gaji" -> "Gaji"
      [] h = "penerimaan_bonus" -> "bonus"
      [] h = "pengeluaran_sewa" -> "sewa"
      [] h = "Pengeluaran_Sewa" -> "Sewa"
      [] OTHER -> h

\* String(h || '').trim() of a header cell
HeaderText(cell) == IF cell.t = "string" THEN cell.s ELSE ""

\* headers.findIndex(h => h.toLowerCase() === name), 0 for -1
FindHeader(headers, name) ==
    IF \E i \in 1..Len(headers) : ToLower(headers[i]) = name
    THEN CHOOSE i \in 1..Len(headers) :
            /\ ToLower(headers[i]) = name
            /\ \A j \in 1..(i - 1) : ToLower(headers[j]) # name
    ELSE 0

getNumberValue(row, col) ==
    IF col < 1 \/ col > Len(row) THEN 0
    ELSE IF row[col].t \in {"null", "undefined"} \/ row[col] = Str("") THEN 0
         ELSE NumOr0(row[col])

\* String(value).trim(); the text of a number cell is not spelled out
getStringValue(row, col) ==
    IF col < 1 \/ col > Len(row) THEN ""
    ELSE IF Nullish(row[col]) THEN ""
    ELSE IF row[col].t = "string" THEN row[col].s
    ELSE "<number>"

RECURSIVE CategoryEntriesKeepZero(_, _, _, _)
\* category maps that also store the cells holding 0
CategoryEntriesKeepZero(headers, row, isIncome, col) ==
    IF col > Len(headers) THEN <<>>
    ELSE LET here ==
               IF /\ (IF isIncome THEN IsPenerimaanHeader(headers[col])
                      ELSE IsPengeluaranHeader(headers[col]))
                  /\ getNumberValue(row, col) >= 0
               THEN <<Entry(CategoryOf(headers[col]), Num(getNumberValue(row, col)))>>
               ELSE <<>>
         IN here \o CategoryEntriesKeepZero(headers, row, isIncome, col + 1)

RECURSIVE CategoryEntries(_, _, _, _)
\* the income (isIncome) or expense map of one row: a category column
\* contributes its entry only when its cell is a number above 0
CategoryEntries(headers, row, isIncome, col) ==
    IF col > Len(headers) THEN <<>>
    ELSE LET here ==
               IF /\ (IF isIncome THEN IsPenerimaanHeader(headers[col])
                      ELSE IsPengeluaranHeader(headers[col]))
                  /\ getNumberValue(row, col) > 0
               THEN <<Entry(CategoryOf(headers[col]), Num(getNumberValue(row, col)))>>
               ELSE <<>>
         IN here \o CategoryEntries(headers, row, isIncome, col + 1)

\* the calendar date `days` days after 1970-01-01
CivilFromDays(days) ==
    LET z == days + 719468
        era == z \div 146097
        doe == z - era * 146097
        yoe == (doe - doe \div 1460 + doe \div 36524 - doe \div 146096) \div 365
        doy == doe - (365 * yoe + yoe \div 4 - yoe \div 100)
        mp == (5 * doy + 2) \div 153
        d == doy - (153 * mp + 2) \div 5 + 1
        m == IF mp < 10 THEN mp + 3 ELSE mp - 9
        y == yoe + era * 400 + (IF m <= 2 THEN 1 ELSE 0)
    IN IsoDate(y, m, d)

\* 1899-12-30 counted in days from 1970-01-01
ExcelEpochDay == -25569

parseExcelDate(value) ==
    IF ~Truthy(value) /\ value # Num(0) THEN Today
    ELSE IF value.t = "string" /\ value.s = "YYYY-MM-DD" THEN value
    ELSE IF value.t = "number" /\ value.v > 0
         THEN CivilFromDays(ExcelEpochDay + value.v - (IF value.v >= 60 THEN 1 ELSE 0))
    ELSE IF value = Num(0) THEN IsoDate(1970, 1, 1)
    ELSE IF value.t = "number" THEN IsoDate(1969, 12, 31)
    ELSE Today

\* the id of the transaction read from data row i
UploadTxId(i) ==
    CASE i = 1 -> "tx-u1"
      [] i = 2 -> "tx-u2"
      [] i = 3 -> "tx-u3"
      [] OTHER -> "tx-u4"

\* the id of the account read from a sheet
UploadAccId(sheetName) ==
    CASE sheetName = "Kas" -> "acc-kas"
      [] sheetName = "Bank" -> "acc-bank"
      [] OTHER -> "acc-other"

RECURSIVE ParseRows(_, _, _, _)
\* the rows loop of one sheet, from data row i with the running balance so
\* far: <<transactions, runningBalance>>
ParseRows(data, headers, i, runningBalance) ==
    IF i > Len(data) THEN <<<<>>, runningBalance>>
    ELSE IF data[i] = <<>> THEN ParseRows(data, headers, i + 1, runningBalance)
    ELSE
      LET row == data[i]
          dateCol == FindHeader(headers, "tanggal")
          descCol == FindHeader(headers, "uraian")
          jumlahCol == FindHeader(headers, "jumlah")
          penerimaan == CategoryEntries(headers, row, TRUE, 1)
          pengeluaran == CategoryEntries(headers, row, FALSE, 1)
          total == SumNumOr0([k \in 1..Len(penerimaan) |-> penerimaan[k].v])
                   - SumNumOr0([k \in 1..Len(pengeluaran) |-> pengeluaran[k].v])
          amount == IF jumlahCol <= Len(row) /\ TypeOf(row[jumlahCol]) = "number"
                    THEN row[jumlahCol] ELSE Num(0)
          saldo == getNumberValue(row, jumlahCol)
          running == IF saldo = 0 THEN runningBalance + total ELSE saldo
          rawDate == IF dateCol <= Len(row) THEN row[dateCol] ELSE Null
          uraian == IF getStringValue(row, descCol) # ""
                    THEN getStringValue(row, descCol)
                    ELSE "Transaksi Tanpa Keterangan"
          tx == Tx(Str(UploadTxId(i - 1)), parseExcelDate(rawDate), Str(uraian),
                   Obj(penerimaan), Obj(pengeluaran), amount, Num(running))
          rest == ParseRows(data, headers, i + 1, running)
      IN <<<<tx>> \o rest[1], rest[2]>>

\* a sheet with no rows, or without one of the three required columns, is skipped
SheetSkipped(sheet) ==
    \/ sheet.data = <<>>
    \/ LET headers == [k \in 1..Len(sheet.data[1]) |-> HeaderText(sheet.data[1][k])]
       IN \/ FindHeader(headers, "tanggal") = 0
          \/ FindHeader(headers, "uraian") = 0
          \/ FindHeader(headers, "jumlah") = 0

RECURSIVE ParseSheetsStopAtSkipped(_)
\* a sheets loop that gives up at the first sheet it cannot use
ParseSheetsStopAtSkipped(sheets) ==
    IF sheets = <<>> THEN <<>>
    ELSE LET sheet == Head(sheets)
             headers == [k \in 1..Len(sheet.data[1]) |-> HeaderText(sheet.data[1][k])]
             rows == ParseRows(sheet.data, headers, 2, 0)
         IN IF SheetSkipped(sheet) \/ rows[1] = <<>> THEN <<>>
            ELSE <<Account(sheet.name, Str(UploadAccId(sheet.name)), rows[1], rows[2])>>
                 \o ParseSheetsStopAtSkipped(Tail(sheets))

RECURSIVE ParseSheets(_)
\* the sheets loop: one account per sheet that yields a transaction
ParseSheets(sheets) ==
    IF sheets = <<>> THEN <<>>
    ELSE LET sheet == Head(sheets)
             headers == [k \in 1..Len(sheet.data[1]) |-> HeaderText(sheet.data[1][k])]
             parsed == ParseRows(sheet.data, headers, 2, 0)
         IN (IF SheetSkipped(sheet) \/ parsed[1] = <<>> THEN <<>>
             ELSE <<Account(sheet.name, Str(UploadAccId(sheet.name)),
                            parsed[1], parsed[2])>>)
            \o ParseSheets(Tail(sheets))

\* the message of the error handleFileUpload throws, or "" when it returns accounts
UploadError(workbook) ==
    IF Len(workbook) = 0 THEN "File does not contain any sheets"
    ELSE IF ParseSheets(workbook) = <<>>
         THEN "Tidak ada data transaksi yang valid dalam file"
         ELSE ""

\* the per-transaction mapping of processAndUpdateAccounts
ProcessTx(tx, i) ==
    LET defaultPenerimaan ==
            IF TypeOf(tx.penerimaan) = "string" THEN EmptyObj
            ELSE OrElse(tx.penerimaan, EmptyObj)
        defaultPengeluaran ==
            IF TypeOf(tx.pengeluaran) = "string" THEN EmptyObj
            ELSE OrElse(tx.pengeluaran, EmptyObj)
        given == IF TypeOf(tx.jumlah) = "number" THEN tx.jumlah ELSE Num(0)
        jumlah == IF given = Num(0)
                  THEN Num(SumNumOr0(ObjectValues(defaultPenerimaan))
                           - SumNumOr0(ObjectValues(defaultPengeluaran)))
                  ELSE given
    IN Tx(OrElse(tx.id, Str(RandomId(i))), OrElse(tx.tanggal, Today),
          OrElse(tx.uraian, Str("")), defaultPenerimaan, defaultPengeluaran,
          jumlah, tx.saldo_berjalan)

\* mappedAccounts of processAndUpdateAccounts
MappedAccounts(parsed) ==
    [k \in 1..Len(parsed) |->
        Account(IF parsed[k].name # "" THEN parsed[k].name ELSE "Akun Tanpa Nama",
                OrElse(parsed[k].id, Str("acc-random")),
                [i \in 1..Len(parsed[k].transactions) |->
                    ProcessTx(parsed[k].transactions[i], i)],
                parsed[k].balance)]

\* the dispatches of processAndUpdateAccounts; `closureCurrent` is the
\* state.currentAccount the handler closed over
processAndUpdateAccounts(parsed, closureCurrent) ==
    LET mapped == MappedAccounts(parsed)
    IN <<SetAccounts(mapped)>>
       \o (IF Len(mapped) > 0 /\ ~Truthy(closureCurrent)
           THEN <<SetCurrentAccount(mapped[1].id)>> ELSE <<>>)

-----------------------------------------------------------------------------
(* The transaction editor *)

RECURSIVE transactionsWithRunningBalance(_)
\* every transaction with its recomputed net amount and the running total
\* in list order
transactionsWithRunningBalance(txs) ==
    IF txs = <<>> THEN <<>>
    ELSE LET front == transactionsWithRunningBalance(SubSeq(txs, 1, Len(txs) - 1))
             tx == txs[Len(txs)]
         IN Append(front, [tx EXCEPT !.jumlah = Num(NetOf(tx)),
                                     !.saldo_berjalan = Num(SumNet(txs))])

\* the account the editor page works on: the first one named currentAccount
SelectedIndex ==
    IF \E i \in 1..Len(accounts) : Str(accounts[i].name) = currentAccount
    THEN CHOOSE i \in 1..Len(accounts) :
            /\ Str(accounts[i].name) = currentAccount
            /\ \A j \in 1..(i - 1) : Str(accounts[j].name) # currentAccount
    ELSE 0

\* the editor's working list
editedTransactions ==
    transactionsWithRunningBalance(accounts[SelectedIndex].transactions)

\* the validation of handleSaveTransaction
FormValid(form) ==
    /\ Truthy(form.tanggal)
    /\ form.kategori # ""
    /\ form.uraian # ""
    /\ ToNumber(Str(form.jumlah)).t = "number"
    /\ ToNumber(Str(form.jumlah)).v > 0

\* txData of handleSaveTransaction under the given id
FormTx(id, form) ==
    LET amount == ToNumber(Str(form.jumlah))
        penerimaan == IF form.tipe = "penerimaan"
                      THEN Obj(<<Entry(form.kategori, amount)>>) ELSE EmptyObj
        pengeluaran == IF form.tipe = "penerimaan"
                       THEN EmptyObj ELSE Obj(<<Entry(form.kategori, amount)>>)
    IN Tx(id, form.tanggal, Str(form.uraian), penerimaan, pengeluaran,
          Num(SumNumOr0(ObjectValues(penerimaan))
              - SumNumOr0(ObjectValues(pengeluaran))),
          Num(0))

\* `tx-${Date.now()}` of the n-th save
NewTxId(n) ==
    CASE n = 1 -> "tx-n1"
      [] n = 2 -> "tx-n2"
      [] n = 3 -> "tx-n3"
      [] OTHER -> "tx-n4"

\* handleSaveTransactions of the editor page
handleSaveTransactions(txs) ==
    Dispatch(<<UpdateAccount(accounts[SelectedIndex].name, txs)>>)

-----------------------------------------------------------------------------
(* The application: upload, reload, account selection and editing *)

HeaderOk ==
    <<Str("tanggal"), Str("uraian"), Str("jumlah"),
      Str("penerimaan_gaji"), Str("pengeluaran_sewa")>>

HeaderCaps ==
    <<Str("Tanggal"), Str("Uraian"), Str("Jumlah"),
      Str("Penerimaan_Gaji"), Str("Pengeluaran_Sewa")>>

HeaderNoJumlah == <<Str("tanggal"), Str("uraian"), Str("penerimaan_gaji")>>

\* jumlah cell 0: income 5000000
RowA == <<IsoDate(2024, 1, 15), Str("Gaji bulanan"), Num(0), Num(5000000), Num(0)>>

\* a serial date, no description, jumlah cell 7 beside income 5 and expense 3
RowB == <<Num(45296), Str(""), Num(7), Num(5), Num(3)>>

Sheet(name, data) == [name |-> name, data |-> data]

SheetA == <<HeaderOk, RowA>>

SheetAB == <<HeaderCaps, RowA, <<>>, RowB>>

Workbooks ==
    {<<>>,
     <<Sheet("Kas", <<>>)>>,
     <<Sheet("Kas", <<HeaderNoJumlah, RowA>>)>>,
     <<Sheet("Kas", <<HeaderOk>>)>>,
     <<Sheet("Kas", SheetA)>>,
     <<Sheet("Kas", SheetAB)>>,
     <<Sheet("Kas", SheetA), Sheet("Bank", SheetAB)>>,
     <<Sheet("Kas", <<>>), Sheet("Bank", SheetA)>>}

Forms ==
    {Form(IsoDate(2024, 2, 1), "penerimaan", "bonus", "Bonus", "4"),
     Form(IsoDate(2023, 12, 10), "pengeluaran", "sewa", "Sewa", "2"),
     Form(IsoDate(2024, 2, 1), "penerimaan", "bonus", "Bonus", "")}

PromptNames == {"", "Kas", "Modal"}

Init ==
    /\ accounts = initialState.accounts
    /\ currentAccount = initialState.currentAccount
    /\ isLoading = initialState.isLoading
    /\ error = initialState.error
    /\ isBackendReady = initialState.isBackendReady
    /\ storage = Snapshot(initialState)
    /\ edits = 0
    /\ page = "upload"
    /\ last = NoOp
    /\ rawTx = Undef
    /\ normOut = Undef
    /\ reportTxs = <<>>
    /\ reportOut = Undef
    /\ fileWorkbook = <<>>
    /\ fileOutcome = Undef
    /\ isSaving = FALSE
    /\ toast = NoToast
    /\ phase = "idle"
    /\ queue = <<>>
    /\ healthCheckInterval = "none"
    /\ inFlight = NoChecks
    /\ timers = NoTimers
    /\ timerRef = FALSE
    /\ reminderTimers = 0
    /\ isActive = FALSE
    /\ isReminderActive = defaultSettings.isReminderActive
    /\ reminderInterval = defaultSettings.reminderInterval
    /\ editorMounted = FALSE
    /\ isProcessing = FALSE
    /\ outstanding = <<>>
    /\ simpleForm = emptyForm
    /\ editingId = Null
    /\ deleteConfirm = Null
    /\ expectedStore = Undef
    /\ dateValue = Undef
    /\ dateOut = Undef

\* an uploaded file: XLSX.read either throws on it or returns its sheets
File(readable, sheets) == [readable |-> readable, sheets |-> sheets]

Files == {File(FALSE, <<>>)} \cup {File(TRUE, w) : w \in Workbooks}

\* what handleFileUpload makes of a file: the message of the error it caught
\* ("" for none) and the accounts it returns
handleFileUpload(file) ==
    LET message == IF file.readable THEN UploadError(file.sheets)
                   ELSE "Unsupported file"
    IN [error |-> message,
        accounts |-> IF message = "" THEN ParseSheets(file.sheets) ELSE <<>>]

UploadOutcomes == {handleFileUpload(file) : file \in Files}

\* a failed upload that also empties the account list
FailedUploadClearsAccounts(outcome) ==
    <<SetLoading(TRUE), SetError(Str(outcome.error)), SetAccounts(<<>>),
      SetLoading(FALSE)>>

\* the dispatches of an upload whose parse failed
FailedUploadDispatches(outcome) ==
    <<SetLoading(TRUE), SetError(Str(outcome.error)), SetLoading(FALSE)>>

\* the dispatches of onFileChange / handleDrop for one file
UploadDispatches(outcome, closureCurrent) ==
    IF outcome.error = ""
    THEN <<SetLoading(TRUE), SetLoading(FALSE)>>
         \o processAndUpdateAccounts(outcome.accounts, closureCurrent)
    ELSE FailedUploadDispatches(outcome)

\* the editor page is on screen with accounts but no selected account: its
\* render dispatches the auto-select before anything else can happen
AutoSelectPending ==
    /\ page = "editor"
    /\ SelectedIndex = 0
    /\ Len(accounts) > 0

\* a file that yields accounts; the page then navigates to the editor
Upload ==
    /\ page = "upload"
    /\ page' = "editor"
    /\ \E outcome \in UploadOutcomes :
          /\ outcome.error = ""
          /\ Dispatch(UploadDispatches(outcome, currentAccount))
    /\ UNCHANGED <<edits, last, pureVars>>

\* a file handleFileUpload fails on
UploadFails ==
    /\ page = "upload"
    /\ \E outcome \in UploadOutcomes :
          /\ outcome.error # ""
          /\ Dispatch(UploadDispatches(outcome, currentAccount))
    /\ UNCHANGED <<edits, page, last, pureVars>>

\* a navigation link of the layout
Navigate ==
    /\ ~AutoSelectPending
    /\ \E target \in {"upload", "editor", "reports"} :
          /\ target # page
          /\ page' = target
    /\ UNCHANGED <<storeVars, storage, edits, last, pureVars>>

\* a page reload: the provider mounts with initialState and the load
\* effect replays the stored snapshot
Reload ==
    /\ page' = page
    /\ Commit(ReduceAll(initialState,
                        <<SetAccounts(storage.accounts)>>
                        \o (IF Truthy(storage.currentAccount)
                            THEN <<SetCurrentAccount(storage.currentAccount)>>
                            ELSE <<>>)))
    /\ UNCHANGED <<edits, last, pureVars>>

handleAddAccount ==
    /\ page = "editor"
    /\ ~AutoSelectPending
    /\ \E accountName \in PromptNames :
          /\ accountName # ""
          /\ ~HasName(accounts, accountName)
          /\ Dispatch(<<AddAccount([name |-> accountName, transactions |-> <<>>,
                                    balance |-> 0])>>)
    /\ UNCHANGED <<edits, page, last, pureVars>>

\* the account selector of the editor page or of the reports page calls
\* onSelect with the name of a listed account
handleSelectAccount ==
    /\ page \in {"editor", "reports"}
    /\ ~AutoSelectPending
    /\ \E i \in 1..Len(accounts) :
          Dispatch(<<SetCurrentAccount(Str(accounts[i].name))>>)
    /\ UNCHANGED <<edits, page, last, pureVars>>

\* the editor page renders with no selected account
EditorAutoSelect ==
    /\ AutoSelectPending
    /\ Dispatch(<<SetCurrentAccount(Str(accounts[1].name))>>)
    /\ UNCHANGED <<edits, page, last, pureVars>>

EditorAdd ==
    /\ page = "editor"
    /\ SelectedIndex # 0
    /\ edits < MaxEdits
    /\ \E form \in Forms :
          /\ FormValid(form)
          /\ handleSaveTransactions(
                Append(editedTransactions, FormTx(Str(NewTxId(edits + 1)), form)))
    /\ edits' = edits + 1
    /\ UNCHANGED <<page, last, pureVars>>

EditorEdit ==
    /\ page = "editor"
    /\ SelectedIndex # 0
    /\ edits < MaxEdits
    /\ \E form \in Forms, k \in 1..Len(editedTransactions) :
          /\ FormValid(form)
          /\ LET editing == editedTransactions[k].id
             IN handleSaveTransactions(
                   [j \in 1..Len(editedTransactions) |->
                       IF editedTransactions[j].id = editing
                       THEN FormTx(editing, form)
                       ELSE editedTransactions[j]])
    /\ edits' = edits + 1
    /\ UNCHANGED <<page, last, pureVars>>

EditorDelete ==
    /\ page = "editor"
    /\ SelectedIndex # 0
    /\ edits < MaxEdits
    /\ \E k \in 1..Len(editedTransactions) :
          handleSaveTransactions(
             SelectSeq(editedTransactions,
                       LAMBDA t : t.id # editedTransactions[k].id))
    /\ edits' = edits + 1
    /\ UNCHANGED <<page, last, pureVars>>

Next ==
    \/ Upload
    \/ UploadFails
    \/ Navigate
    \/ Reload
    \/ handleAddAccount
    \/ handleSelectAccount
    \/ EditorAutoSelect
    \/ EditorAdd
    \/ EditorEdit
    \/ EditorDelete

Spec == Init /\ [][Next]_vars

-----------------------------------------------------------------------------
(* Application invariants *)

\* C1: in every reachable state of the application, currentAccount is null or
\* the name of an account in accounts.
C1_CurrentAccountNamesAccount ==
    \/ currentAccount = Null
    \/ \E i \in 1..Len(accounts) : currentAccount = Str(accounts[i].name)

\* C2: whenever accounts is non-empty, currentAccount is not null.
C2_CurrentWhenAccounts ==
    Len(accounts) > 0 => ~Nullish(currentAccount)

\* accounts exist after an upload, an added account and an editor save
C2_Witness ==
    /\ Len(accounts) > 1
    /\ HasName(accounts, "Modal")
    /\ edits > 0
    /\ ~Nullish(currentAccount)

\* C3: every transaction held in the store has jumlah equal to the sum of
\* its penerimaan values minus the sum of its pengeluaran values.
C3_AmountIsNet ==
    \A i \in 1..Len(accounts) :
        \A j \in 1..Len(accounts[i].transactions) :
            accounts[i].transactions[j].jumlah
                = Num(NetOf(accounts[i].transactions[j]))

-----------------------------------------------------------------------------
(* Reports: generateReports of the reports page *)

\* days from 1970-01-01 to the calendar date y-m-d
DaysFromCivil(y, m, d) ==
    LET yy == IF m <= 2 THEN y - 1 ELSE y
        era == yy \div 400
        yoe == yy - era * 400
        mp == IF m > 2 THEN m - 3 ELSE m + 9
        doy == (153 * mp + 2) \div 5 + d - 1
        doe == yoe * 365 + yoe \div 4 - yoe \div 100 + doy
    IN era * 146097 + doe - 719468

\* new Date(tanggal).getTime() in days, for a YYYY-MM-DD string (UTC midnight)
DateTime(tanggal) == DaysFromCivil(tanggal.y, tanggal.m, tanggal.d)

\* the calendar date getFullYear() and getMonth() see: the browser's zone is
\* either at or ahead of UTC (same day) or behind it (the day before)
LocalDate(tanggal, behindUTC) ==
    IF behindUTC THEN CivilFromDays(DateTime(tanggal) - 1) ELSE tanggal

\* the list left in insertion order
sortedTransactionsUnsorted(txs) == txs

RECURSIVE sortedTransactions(_)
\* [...transactions].sort(by date): Array.prototype.sort is stable
sortedTransactions(txs) ==
    IF txs = <<>> THEN <<>>
    ELSE LET front == sortedTransactions(SubSeq(txs, 1, Len(txs) - 1))
             tx == txs[Len(txs)]
             n == Cardinality({i \in 1..Len(front) :
                                 DateTime(front[i].tanggal) <= DateTime(tx.tanggal)})
         IN SubSeq(front, 1, n) \o <<tx>> \o SubSeq(front, n + 1, Len(front))

RECURSIVE SumIfNumber(_)
\* reduce((sum, val) => sum + (typeof val === 'number' ? val : 0), 0), for
\* values other than NaN
SumIfNumber(vals) ==
    IF vals = <<>> THEN 0
    ELSE (IF Head(vals).t = "number" THEN Head(vals).v ELSE 0)
         + SumIfNumber(Tail(vals))

ReportIncome(tx) == SumIfNumber(ObjectValues(OrElse(tx.penerimaan, EmptyObj)))

\* a report that counts no expense
ReportExpenseNone(tx) == 0

ReportExpense(tx) == SumIfNumber(ObjectValues(OrElse(tx.pengeluaran, EmptyObj)))

RECURSIVE runningBalanceData(_)
\* one entry per transaction of the sorted list, with the running total
runningBalanceData(sorted) ==
    IF sorted = <<>> THEN <<>>
    ELSE LET front == runningBalanceData(SubSeq(sorted, 1, Len(sorted) - 1))
             tx == sorted[Len(sorted)]
             balance == ReportIncome(tx) - ReportExpense(tx)
             before == IF front = <<>> THEN 0 ELSE front[Len(front)].runningBalance
         IN Append(front, [date |-> tx.tanggal,
                           income |-> ReportIncome(tx),
                           expense |-> ReportExpense(tx),
                           balance |-> balance,
                           runningBalance |-> before + balance])

\* monthYear `${year}-${month}` as the pair it is built from
MonthYear(tx, behindUTC) ==
    [y |-> LocalDate(tx.tanggal, behindUTC).y, m |-> LocalDate(tx.tanggal, behindUTC).m]

\* yearStr
YearStr(tx, behindUTC) == [y |-> LocalDate(tx.tanggal, behindUTC).y, m |-> 0]

RECURSIVE SortPeriods(_)
\* Object.entries(...).sort(([a], [b]) => a.localeCompare(b))
SortPeriods(periods) ==
    IF periods = {} THEN <<>>
    ELSE LET first == CHOOSE p \in periods :
                         \A q \in periods : p.y * 12 + p.m <= q.y * 12 + q.m
         IN <<first>> \o SortPeriods(periods \ {first})

RECURSIVE SumInts(_)
SumInts(ns) == IF ns = <<>> THEN 0 ELSE Head(ns) + SumInts(Tail(ns))

\* monthlyReports (byMonth) or yearlyReports: per period, the income and
\* expense added up over the transactions that fall in it
PeriodReports(sorted, byMonth, behindUTC) ==
    LET periodOf(tx) == IF byMonth THEN MonthYear(tx, behindUTC)
                        ELSE YearStr(tx, behindUTC)
        periods == SortPeriods({periodOf(sorted[i]) : i \in 1..Len(sorted)})
    IN [k \in 1..Len(periods) |->
          LET income == SumInts([i \in 1..Len(sorted) |->
                                   IF periodOf(sorted[i]) = periods[k]
                                   THEN ReportIncome(sorted[i]) ELSE 0])
              expense == SumInts([i \in 1..Len(sorted) |->
                                    IF periodOf(sorted[i]) = periods[k]
                                    THEN ReportExpense(sorted[i]) ELSE 0])
          IN [period |-> periods[k], income |-> income, expense |-> expense,
              balance |-> income - expense]]

generateReports(txs, behindUTC) ==
    LET sorted == sortedTransactions(txs)
    IN [monthly |-> PeriodReports(sorted, TRUE, behindUTC),
        yearly |-> PeriodReports(sorted, FALSE, behindUTC),
        running |-> runningBalanceData(sorted)]

\* longest transaction list handed to generateReports
MaxReportTx == 3

ReportTx(id, tanggal, penerimaan, pengeluaran, jumlah) ==
    Tx(Str(id), tanggal, Str("x"), Obj(penerimaan), Obj(pengeluaran), Num(jumlah), Num(0))

\* 2024-01-10 (+100), 2024-01-05 (-30), a second entry on 2024-01-10, one in
\* the previous year, one whose stored jumlah differs from its net, and one
\* on the first day of a month holding a string among its values
ReportInputs ==
    {ReportTx("r1", IsoDate(2024, 1, 10), <<Entry("gaji", Num(100))>>, <<>>, 100),
     ReportTx("r2", IsoDate(2024, 1, 5), <<>>, <<Entry("sewa", Num(30))>>, -30),
     ReportTx("r3", IsoDate(2024, 1, 10), <<Entry("bonus", Num(4))>>, <<>>, 4),
     ReportTx("r4", IsoDate(2023, 12, 31), <<>>, <<Entry("sewa", Num(2))>>, -2),
     ReportTx("r5", IsoDate(2024, 1, 4), <<Entry("Gaji", Num(5))>>,
              <<Entry("Sewa", Num(3))>>, 7),
     ReportTx("r6", IsoDate(2024, 2, 1),
              <<Entry("gaji", Str("12")), Entry("bonus", Num(1))>>, <<>>, 13)}

InitReport ==
    /\ accounts = initialState.accounts
    /\ currentAccount = initialState.currentAccount
    /\ isLoading = initialState.isLoading
    /\ error = initialState.error
    /\ isBackendReady = initialState.isBackendReady
    /\ storage = Snapshot(initialState)
    /\ edits = 0
    /\ page = "reports"
    /\ last = NoOp
    /\ rawTx = Undef
    /\ normOut = Undef
    /\ reportTxs \in SeqsUpTo(ReportInputs, MaxReportTx)
    /\ reportOut = NotRun
    /\ fileWorkbook = <<>>
    /\ fileOutcome = Undef
    /\ isSaving = FALSE
    /\ toast = NoToast
    /\ phase = "idle"
    /\ queue = <<>>
    /\ healthCheckInterval = "none"
    /\ inFlight = NoChecks
    /\ timers = NoTimers
    /\ timerRef = FALSE
    /\ reminderTimers = 0
    /\ isActive = FALSE
    /\ isReminderActive = defaultSettings.isReminderActive
    /\ reminderInterval = defaultSettings.reminderInterval
    /\ editorMounted = FALSE
    /\ isProcessing = FALSE
    /\ outstanding = <<>>
    /\ simpleForm = emptyForm
    /\ editingId = Null
    /\ deleteConfirm = Null
    /\ expectedStore = Undef
    /\ dateValue = Undef
    /\ dateOut = Undef

\* the report effect runs for the selected account
GenerateReport ==
    /\ reportOut = NotRun
    /\ \E behindUTC \in BOOLEAN :
          reportOut' = generateReports(reportTxs, behindUTC)
    /\ UNCHANGED <<appVars, normVars, reportTxs, parseVars, exportVars, providerVars, healthVars, dateVars, reminderVars, raceVars, editorVars>>

NextReport == GenerateReport

SpecReport == InitReport /\ [][NextReport]_vars

\* where the a-th transaction of the input stands in date-ascending order
\* with ties in original order
DateRank(txs, a) ==
    Cardinality({b \in 1..Len(txs) :
                    DateTime(txs[b].tanggal) < DateTime(txs[a].tanggal)})
    + Cardinality({b \in 1..a :
                      DateTime(txs[b].tanggal) = DateTime(txs[a].tanggal)})

\* C11: the running-balance series has one entry per transaction, in date
\* order ascending with equal dates in their original order, each entry
\* carrying the transaction's income minus expense, and each running balance
\* is the previous one (0 before the first) plus that amount.
C11_RunningSeriesByDate ==
    reportOut # NotRun =>
        LET running == reportOut.running IN
        /\ Len(running) = Len(reportTxs)
        /\ \A a \in 1..Len(reportTxs) :
              LET e == running[DateRank(reportTxs, a)] IN
              /\ e.date = reportTxs[a].tanggal
              /\ e.balance = ReportIncome(reportTxs[a]) - ReportExpense(reportTxs[a])
        /\ \A i \in 1..Len(running) :
              running[i].runningBalance
                 = (IF i = 1 THEN 0 ELSE running[i - 1].runningBalance)
                   + running[i].balance

\* 2024-01-10 (+100) then 2024-01-05 (-30) came out as -30 then 70
C11_Witness ==
    /\ Len(reportTxs) = 2
    /\ reportTxs[1].tanggal = IsoDate(2024, 1, 10)
    /\ reportTxs[1].jumlah = Num(100)
    /\ reportTxs[2].tanggal = IsoDate(2024, 1, 5)
    /\ reportTxs[2].jumlah = Num(-30)
    /\ reportOut # NotRun
    /\ reportOut.running[1].date = IsoDate(2024, 1, 5)
    /\ reportOut.running[1].runningBalance = -30
    /\ reportOut.running[2].runningBalance = 70

\* the sum of the balance fields of a list of period buckets
BucketTotal(buckets) == SumInts([k \in 1..Len(buckets) |-> buckets[k].balance])

\* C12: for every account of the store, the monthly buckets' net balances and
\* the yearly buckets' net balances both add up to the account's balance.
C12_AggregateConservation ==
    \A i \in 1..Len(accounts), behindUTC \in BOOLEAN :
        LET report == generateReports(accounts[i].transactions, behindUTC) IN
        /\ BucketTotal(report.monthly) = BucketTotal(report.yearly)
        /\ BucketTotal(report.yearly) = accounts[i].balance

\* an account with income and expense spread over three months of two years
C12_Witness ==
    \E i \in 1..Len(accounts) :
        LET report == generateReports(accounts[i].transactions, FALSE) IN
        /\ Len(report.monthly) >= 3
        /\ Len(report.yearly) >= 2
        /\ \E k \in 1..Len(report.monthly) : report.monthly[k].expense > 0
        /\ accounts[i].balance # 0

-----------------------------------------------------------------------------
(* SpecParse: one file through the upload handler, from a chosen store state *)

\* most sheets in an uploaded workbook
MaxSheets == 2

SheetName(i) ==
    CASE i = 1 -> "Kas"
      [] i = 2 -> "Bank"
      [] OTHER -> "Tabungan"

HeaderNoTanggal == <<Str("uraian"), Str("jumlah"), Str("penerimaan_gaji")>>

HeaderNoUraian == <<Str("tanggal"), Str("jumlah"), Str("penerimaan_gaji")>>

ParseSheetData ==
    {<<>>, <<HeaderOk>>, <<HeaderOk, <<>>>>, SheetA, SheetAB,
     <<HeaderNoJumlah, RowA>>, <<HeaderNoTanggal, RowA>>, <<HeaderNoUraian, RowA>>}

ParseFiles ==
    {File(FALSE, <<>>)}
    \cup UNION {{File(TRUE, [i \in 1..n |-> Sheet(SheetName(i), data[i])]) :
                    data \in [1..n -> ParseSheetData]} : n \in 0..MaxSheets}

\* the store before the upload: empty, or holding an account that is current
ParsePreStates ==
    {initialState,
     ReduceAll(initialState,
               <<SetAccounts(<<Account("Kas", Str("acc-old"), <<TxCanon>>, 5)>>),
                 SetCurrentAccount(Str("Kas"))>>)}

InitParse ==
    /\ \E pre \in ParsePreStates :
          /\ accounts = pre.accounts
          /\ currentAccount = pre.currentAccount
          /\ isLoading = pre.isLoading
          /\ error = pre.error
          /\ isBackendReady = pre.isBackendReady
          /\ storage = Snapshot(pre)
    /\ edits = 0
    /\ page = "upload"
    /\ last = NoOp
    /\ rawTx = Undef
    /\ normOut = Undef
    /\ reportTxs = <<>>
    /\ reportOut = Undef
    /\ fileWorkbook \in ParseFiles
    /\ fileOutcome = NotRun
    /\ isSaving = FALSE
    /\ toast = NoToast
    /\ phase = "idle"
    /\ queue = <<>>
    /\ healthCheckInterval = "none"
    /\ inFlight = NoChecks
    /\ timers = NoTimers
    /\ timerRef = FALSE
    /\ reminderTimers = 0
    /\ isActive = FALSE
    /\ isReminderActive = defaultSettings.isReminderActive
    /\ reminderInterval = defaultSettings.reminderInterval
    /\ editorMounted = FALSE
    /\ isProcessing = FALSE
    /\ outstanding = <<>>
    /\ simpleForm = emptyForm
    /\ editingId = Null
    /\ deleteConfirm = Null
    /\ expectedStore = Undef
    /\ dateValue = Undef
    /\ dateOut = Undef

\* onFileChange for the chosen file
UploadFile ==
    /\ fileOutcome = NotRun
    /\ fileOutcome' = handleFileUpload(fileWorkbook)
    /\ Dispatch(UploadDispatches(handleFileUpload(fileWorkbook), currentAccount))
    /\ page' = IF handleFileUpload(fileWorkbook).error = "" THEN "editor" ELSE page
    /\ UNCHANGED <<edits, last, normVars, reportVars, fileWorkbook, exportVars, providerVars, healthVars, dateVars, reminderVars, raceVars, editorVars>>

NextParse == UploadFile

SpecParse == InitParse /\ [][NextParse]_vars

\* the sheet has rows and its header row names the three required columns,
\* in any letter case
HasRequiredColumns(sheet) ==
    /\ sheet.data # <<>>
    /\ \A required \in {"tanggal", "uraian", "jumlah"} :
          \E k \in 1..Len(sheet.data[1]) :
              /\ sheet.data[1][k].t = "string"
              /\ sheet.data[1][k].s \in
                    {required,
                     CHOOSE c \in {"Tanggal", "Uraian", "Jumlah"} : ToLower(c) = required}

\* the data rows of the sheet that hold cells
DataRows(sheet) ==
    SelectSeq(SubSeq(sheet.data, 2, Len(sheet.data)), LAMBDA row : row # <<>>)

YieldsTransactions(sheet) == HasRequiredColumns(sheet) /\ DataRows(sheet) # <<>>

\* C13: the parse skips every sheet with zero rows or without one of the
\* three required columns and goes on with the others, so the accounts it
\* returns are exactly the usable sheets in workbook order; it fails if and
\* only if the workbook has no sheet or no sheet yields a transaction.
C13_SkipSheetsFailOnlyWhenEmpty ==
    (fileOutcome # NotRun /\ fileWorkbook.readable) =>
        LET usable == SelectSeq(fileWorkbook.sheets, YieldsTransactions) IN
        /\ (fileOutcome.error # "") <=> (usable = <<>>)
        /\ Len(fileOutcome.accounts) = Len(usable)
        /\ \A k \in 1..Len(usable) :
              /\ fileOutcome.accounts[k].name = usable[k].name
              /\ Len(fileOutcome.accounts[k].transactions) = Len(DataRows(usable[k]))

\* a workbook whose first sheet lacks a required column and whose second
\* sheet, with a capitalised header, was parsed
C13_Witness ==
    /\ fileOutcome # NotRun
    /\ fileWorkbook.readable
    /\ Len(fileWorkbook.sheets) = 2
    /\ ~HasRequiredColumns(fileWorkbook.sheets[1])
    /\ fileWorkbook.sheets[1].data # <<>>
    /\ fileWorkbook.sheets[2].data = SheetAB
    /\ fileOutcome.error = ""
    /\ Len(fileOutcome.accounts) = 1
    /\ fileOutcome.accounts[1].name = "Bank"

\* C14: an upload whose parse fails (unreadable file, no sheets, no usable
\* sheet) leaves accounts and currentAccount exactly as they were.
C14_FailedUploadKeepsStore ==
    [][(fileOutcome = NotRun /\ fileOutcome' # NotRun /\ fileOutcome'.error # "")
       => UNCHANGED <<accounts, currentAccount>>]_vars

\* an unreadable file was uploaded over a store that holds a current account,
\* and the failure was reported
C14_Witness ==
    /\ fileOutcome # NotRun
    /\ ~fileWorkbook.readable
    /\ error = Str(fileOutcome.error)
    /\ Len(accounts) = 1
    /\ currentAccount = Str("Kas")

\* C15: the sheet with header tanggal, uraian, jumlah, penerimaan_gaji,
\* pengeluaran_sewa and the row (2024-01-15, Gaji bulanan, 0, 5000000, 0) is
\* stored as one account holding exactly one transaction with that date and
\* description, income {gaji: 5000000}, empty expense, amount 5000000 and
\* running balance 5000000.
C15_ConcreteSheet ==
    (fileOutcome # NotRun /\ fileWorkbook = File(TRUE, <<Sheet("Kas", SheetA)>>)) =>
        /\ Len(accounts) = 1
        /\ accounts[1].name = "Kas"
        /\ Len(accounts[1].transactions) = 1
        /\ LET tx == accounts[1].transactions[1] IN
           /\ tx.tanggal = IsoDate(2024, 1, 15)
           /\ tx.uraian = Str("Gaji bulanan")
           /\ tx.penerimaan = Obj(<<Entry("gaji", Num(5000000))>>)
           /\ tx.pengeluaran = EmptyObj
           /\ tx.jumlah = Num(5000000)
           /\ tx.saldo_berjalan = Num(5000000)

\* that sheet has been uploaded
C15_Witness ==
    /\ fileOutcome # NotRun
    /\ fileWorkbook = File(TRUE, <<Sheet("Kas", SheetA)>>)
    /\ SheetA = <<HeaderOk, RowA>>
    /\ Len(accounts) = 1
    /\ page = "editor"

-----------------------------------------------------------------------------
(* SpecExport: the export of the editor page, with the account handlers *)
(* that can run while the request is in flight                           *)

Toast(kind, message) == [kind |-> kind, message |-> message]

\* a catch block that empties the account list
ExportFailureClearsAccounts == <<SetAccounts(<<>>)>>

\* what the export's catch block dispatches to the store: nothing
ExportFailureDispatches == <<>>

InitExport ==
    /\ \E pre \in PreStates :
          /\ accounts = pre.accounts
          /\ currentAccount = pre.currentAccount
          /\ isLoading = pre.isLoading
          /\ error = pre.error
          /\ isBackendReady = pre.isBackendReady
          /\ storage = Snapshot(pre)
    /\ edits = 0
    /\ page = "editor"
    /\ last = NoOp
    /\ rawTx = Undef
    /\ normOut = Undef
    /\ reportTxs = <<>>
    /\ reportOut = Undef
    /\ fileWorkbook = <<>>
    /\ fileOutcome = Undef
    /\ isSaving = FALSE
    /\ toast = NoToast
    /\ phase = "idle"
    /\ queue = <<>>
    /\ healthCheckInterval = "none"
    /\ inFlight = NoChecks
    /\ timers = NoTimers
    /\ timerRef = FALSE
    /\ reminderTimers = 0
    /\ isActive = FALSE
    /\ isReminderActive = defaultSettings.isReminderActive
    /\ reminderInterval = defaultSettings.reminderInterval
    /\ editorMounted = FALSE
    /\ isProcessing = FALSE
    /\ outstanding = <<>>
    /\ simpleForm = emptyForm
    /\ editingId = Null
    /\ deleteConfirm = Null
    /\ expectedStore = Undef
    /\ dateValue = Undef
    /\ dateOut = Undef

\* the export button with no account in the store
ExportNothing ==
    /\ ~isSaving
    /\ ~AutoSelectPending
    /\ Len(accounts) = 0
    /\ toast' = Toast("error", "Tidak ada data untuk diekspor")
    /\ UNCHANGED <<appVars, normVars, reportVars, parseVars, isSaving, providerVars, healthVars, dateVars, reminderVars, raceVars, editorVars>>

\* the export button: the request is sent
ExportStart ==
    /\ ~isSaving
    /\ ~AutoSelectPending
    /\ Len(accounts) > 0
    /\ isSaving' = TRUE
    /\ last' = [type |-> "EXPORT_START"]
    /\ UNCHANGED <<storeVars, storage, edits, page, normVars, reportVars,
                   parseVars, toast, providerVars, healthVars, dateVars, reminderVars, raceVars, editorVars>>

\* fetch rejects (network error) or the response is not ok
ExportFails ==
    /\ isSaving
    /\ \E failure \in {"network", "status"} :
          /\ last' = [type |-> "EXPORT_FAILED", failure |-> failure]
          /\ Dispatch(ExportFailureDispatches)
          /\ toast' = Toast("error", "Gagal mengekspor data")
    /\ isSaving' = FALSE
    /\ UNCHANGED <<edits, page, normVars, reportVars, parseVars, providerVars, healthVars, dateVars, reminderVars, raceVars, editorVars>>

\* the response is ok: the file is downloaded
ExportSucceeds ==
    /\ isSaving
    /\ last' = [type |-> "EXPORT_OK"]
    /\ toast' = Toast("success", "Data berhasil diekspor")
    /\ isSaving' = FALSE
    /\ UNCHANGED <<storeVars, storage, edits, page, normVars, reportVars, parseVars,
                   providerVars, healthVars, dateVars, reminderVars, raceVars, editorVars>>

NextExport ==
    \/ ExportNothing
    \/ ExportStart
    \/ ExportFails
    \/ ExportSucceeds
    \/ EditorAutoSelect
    \/ handleSelectAccount
    \/ handleAddAccount

SpecExport == InitExport /\ [][NextExport]_vars

\* C16: when the export request fails (network error or a response that is
\* not ok), the step that handles the failure leaves the store (accounts with
\* their transactions and balances, currentAccount) and its snapshot as they
\* were and shows an error toast; the step that sent the request left them
\* alone as well.
C16_ExportFailureKeepsStore ==
    [][/\ (isSaving /\ last'.type = "EXPORT_FAILED")
             => /\ UNCHANGED <<storeVars, storage>>
                /\ toast'.kind = "error"
       /\ (~isSaving /\ isSaving') => UNCHANGED <<storeVars, storage>>]_vars

\* an export has failed over a store that holds accounts
C16_Witness ==
    /\ ~isSaving
    /\ last = [type |-> "EXPORT_FAILED", failure |-> "status"]
    /\ toast = Toast("error", "Gagal mengekspor data")
    /\ Len(accounts) > 1
    /\ currentAccount # Null

-----------------------------------------------------------------------------
(* SpecPersist: the provider's load and save effects, step by step *)

\* localStorage.getItem returns null
NoSnapshot == [t |-> "none"]

\* stored text that JSON.parse rejects
CorruptText == [t |-> "corrupt-text"]

\* stored text that parses, but one transaction of the account list is null
CorruptShape ==
    [accounts |-> <<Account("Kas", Undef, <<TxCanon, Null>>, 5)>>,
     currentAccount |-> Str("Kas")]

\* the dispatches of the load effect for what it finds in local storage
LoadDispatches(stored) ==
    IF stored = NoSnapshot THEN <<>>
    ELSE IF stored = CorruptText
         THEN <<SetError(Str("Failed to load saved data"))>>
         ELSE <<SetAccounts(stored.accounts)>>
              \o (IF Truthy(stored.currentAccount)
                  THEN <<SetCurrentAccount(stored.currentAccount)>> ELSE <<>>)

\* the reducer returns a new accounts array for this action
AccountsReplaced(state, action) ==
    CASE action.type = "SET_ACCOUNTS" -> TRUE
      [] action.type = "UPDATE_ACCOUNT" -> TRUE
      [] action.type = "ADD_ACCOUNT" ->
            ~HasName(state.accounts, AddedName(state, action.payload))
      [] OTHER -> FALSE

RECURSIVE AnyReplaced(_, _)
AnyReplaced(state, actions) ==
    IF actions = <<>> THEN FALSE
    ELSE \/ AccountsReplaced(state, Head(actions))
         \/ AnyReplaced(appReducer(state, Head(actions)), Tail(actions))

\* a save effect that depends on state.accounts alone
SaveEffectDueAccountsOnly(state, actions) == AnyReplaced(state, actions)

\* the dependencies [state.accounts, state.currentAccount] of the save effect
\* differ between the state before and the state after the queued actions
SaveEffectDue(state, actions) ==
    \/ AnyReplaced(state, actions)
    \/ ReduceAll(state, actions).currentAccount # state.currentAccount

\* what the rest of the application dispatches to the provider
PersistActions ==
    <<SetAccounts(<<>>),
      SetAccounts(<<Account("Kas", Str("acc-kas"), <<TxCanon>>, 0)>>),
      SetCurrentAccount(Str("Bank")),
      SetCurrentAccount(Str("acc-kas")),
      AddAccount(Account("Bank", Undef, <<>>, 0)),
      UpdateAccount("Kas", <<TxCanon, TxCanon2>>),
      SetLoading(TRUE),
      SetError(Str("Tidak ada data transaksi yang valid dalam file"))>>

StoredAtStart ==
    {NoSnapshot, CorruptText, CorruptShape,
     Snapshot(ReduceAll(initialState,
                        <<SetAccounts(<<Account("Kas", Str("acc-kas"), <<TxCanon>>, 0)>>)>>)),
     [accounts |-> <<Account("Bank", Undef, <<TxCanon2>>, -3)>>, currentAccount |-> Null]}

InitPersist ==
    /\ accounts = initialState.accounts
    /\ currentAccount = initialState.currentAccount
    /\ isLoading = initialState.isLoading
    /\ error = initialState.error
    /\ isBackendReady = initialState.isBackendReady
    /\ storage \in StoredAtStart
    /\ edits = 0
    /\ page = "upload"
    /\ last = NoOp
    /\ rawTx = Undef
    /\ normOut = Undef
    /\ reportTxs = <<>>
    /\ reportOut = Undef
    /\ fileWorkbook = <<>>
    /\ fileOutcome = Undef
    /\ isSaving = FALSE
    /\ toast = NoToast
    /\ phase = "mounting"
    /\ queue = <<>>
    /\ healthCheckInterval = "none"
    /\ inFlight = NoChecks
    /\ timers = NoTimers
    /\ timerRef = FALSE
    /\ reminderTimers = 0
    /\ isActive = FALSE
    /\ isReminderActive = defaultSettings.isReminderActive
    /\ reminderInterval = defaultSettings.reminderInterval
    /\ editorMounted = FALSE
    /\ isProcessing = FALSE
    /\ outstanding = <<>>
    /\ simpleForm = emptyForm
    /\ editingId = Null
    /\ deleteConfirm = Null
    /\ expectedStore = Undef
    /\ dateValue = Undef
    /\ dateOut = Undef

\* the effects of the first render, in declaration order: the load effect
\* reads local storage and dispatches, then the save effect writes the
\* snapshot of the state that was rendered, which is initialState
MountEffects ==
    /\ phase = "mounting"
    /\ queue' = LoadDispatches(storage)
    /\ last' = [type |-> "MOUNT",
                found |-> IF storage = NoSnapshot THEN "nothing"
                          ELSE IF storage \in {CorruptText, CorruptShape} THEN "corrupt"
                          ELSE "snapshot"]
    /\ storage' = Snapshot(StoreState)
    /\ phase' = "render"
    /\ UNCHANGED <<storeVars, edits, page, normVars, reportVars, parseVars, exportVars, healthVars, dateVars, reminderVars, raceVars, editorVars>>

\* the provider renders: the reducer runs over the queued actions; an
\* exception thrown by the reducer unmounts the application
Render ==
    /\ phase = "render"
    /\ IF AnyThrows(StoreState, queue)
       THEN /\ phase' = "crashed"
            /\ UNCHANGED storeVars
       ELSE /\ accounts' = ReduceAll(StoreState, queue).accounts
            /\ currentAccount' = ReduceAll(StoreState, queue).currentAccount
            /\ isLoading' = ReduceAll(StoreState, queue).isLoading
            /\ error' = ReduceAll(StoreState, queue).error
            /\ isBackendReady' = ReduceAll(StoreState, queue).isBackendReady
            /\ phase' = IF SaveEffectDue(StoreState, queue) THEN "effect" ELSE "idle"
    /\ queue' = <<>>
    /\ UNCHANGED <<storage, edits, page, last, normVars, reportVars, parseVars, exportVars, healthVars, dateVars, reminderVars, raceVars, editorVars>>

\* the save effect
SaveEffect ==
    /\ phase = "effect"
    /\ storage' = Snapshot(StoreState)
    /\ phase' = "idle"
    /\ UNCHANGED <<storeVars, edits, page, last, queue, normVars, reportVars,
                   parseVars, exportVars, healthVars, dateVars, reminderVars, raceVars, editorVars>>

\* a handler of the application dispatches
UserDispatch ==
    /\ phase = "idle"
    /\ edits < MaxEdits
    /\ \E k \in 1..Len(PersistActions) :
          /\ queue' = <<PersistActions[k]>>
          /\ last' = PersistActions[k]
    /\ edits' = edits + 1
    /\ phase' = "render"
    /\ UNCHANGED <<storeVars, storage, page, normVars, reportVars, parseVars, exportVars, healthVars, dateVars, reminderVars, raceVars, editorVars>>

\* the browser reloads the page
ReloadPage ==
    /\ phase = "idle"
    /\ accounts' = initialState.accounts
    /\ currentAccount' = initialState.currentAccount
    /\ isLoading' = initialState.isLoading
    /\ error' = initialState.error
    /\ isBackendReady' = initialState.isBackendReady
    /\ phase' = "mounting"
    /\ last' = NoOp
    /\ UNCHANGED <<storage, edits, page, queue, normVars, reportVars, parseVars, exportVars, healthVars, dateVars, reminderVars, raceVars, editorVars>>

NextPersist ==
    \/ MountEffects
    \/ Render
    \/ SaveEffect
    \/ UserDispatch
    \/ ReloadPage

SpecPersist == InitPersist /\ [][NextPersist]_vars

C18_CorruptSnapshotFallsBack ==
    (last.type = "MOUNT" /\ last.found = "corrupt") =>
        /\ phase # "crashed"
        /\ (phase = "idle" => (accounts = <<>> /\ currentAccount = Null))

\* C26: after the mount effects of a page load that found a snapshot with at
\* least one account, and before the render that restores it, local storage
\* still holds a non-empty account list.
C26_SnapshotNotEmptiedOnMount ==
    (/\ last.type = "MOUNT"
     /\ last.found = "snapshot"
     /\ phase = "render"
     /\ queue[1].payload # <<>>)
        => storage.accounts # <<>>

-----------------------------------------------------------------------------
\* Backend health polling: checkHealth, startHealthChecks (services/api.ts)
\* and the effect of BackendStatus that owns the poller.

MaxInFlight == 3

\* what a GET /api/health can come back with: a body with a status, or a
\* rejected request (network failure, timeout, error status)
HealthResponses ==
    {[kind |-> "data", status |-> "ok"],
     [kind |-> "data", status |-> "starting"],
     [kind |-> "failure"]}

\* checkHealth: the body's status, or 'unavailable' from the catch branch
checkHealth(response) ==
    IF response.kind = "data" THEN response.status ELSE "unavailable"

\* the callback BackendStatus gives to startHealthChecks
onStatusChange(status) == <<SetBackendReady(status = "ok")>>

\* a checkAndUpdateStatus that replaces the interval without looking at
\* healthCheckInterval
checkAndUpdateStatusUnguarded(status, interval) ==
    IF status # "ok" THEN "fast" ELSE "slow"

\* the interval after checkAndUpdateStatus has seen a status
checkAndUpdateStatus(status, interval) ==
    IF status # "ok" /\ interval # "none" THEN "fast"
    ELSE IF status = "ok" /\ interval # "none" THEN "slow"
    ELSE interval

\* the effect of BackendStatus has [state.isBackendReady] as dependencies:
\* a completed check that changes the flag while the component is mounted
\* runs the cleanup and startHealthChecks again
EffectReruns(status) ==
    /\ healthCheckInterval # "none"
    /\ (status = "ok") # isBackendReady

InFlightTotal == inFlight.initial + inFlight.periodic

InitHealth ==
    /\ accounts = initialState.accounts
    /\ currentAccount = initialState.currentAccount
    /\ isLoading = initialState.isLoading
    /\ error = initialState.error
    /\ isBackendReady = initialState.isBackendReady
    /\ storage = Snapshot(initialState)
    /\ edits = 0
    /\ page = "upload"
    /\ last = NoOp
    /\ rawTx = Undef
    /\ normOut = Undef
    /\ reportTxs = <<>>
    /\ reportOut = Undef
    /\ fileWorkbook = <<>>
    /\ fileOutcome = Undef
    /\ isSaving = FALSE
    /\ toast = NoToast
    /\ phase = "idle"
    /\ queue = <<>>
    /\ healthCheckInterval = "none"
    /\ inFlight = NoChecks
    /\ timers = NoTimers
    /\ timerRef = FALSE
    /\ reminderTimers = 0
    /\ isActive = FALSE
    /\ isReminderActive = defaultSettings.isReminderActive
    /\ reminderInterval = defaultSettings.reminderInterval
    /\ editorMounted = FALSE
    /\ isProcessing = FALSE
    /\ outstanding = <<>>
    /\ simpleForm = emptyForm
    /\ editingId = Null
    /\ deleteConfirm = Null
    /\ expectedStore = Undef
    /\ dateValue = Undef
    /\ dateOut = Undef

HealthFrame ==
    UNCHANGED <<edits, page, normVars, reportVars, parseVars, exportVars, providerVars,
                dateVars, reminderVars, raceVars, editorVars>>

\* clearInterval(handle) and setInterval(callback, period) on the set of
\* active interval timers, counted by period
clearInterval(active, handle) ==
    IF handle = "none" THEN active ELSE [active EXCEPT ![handle] = @ - 1]

setInterval(active, period) == [active EXCEPT ![period] = @ + 1]

TimersTotal == timers.fast + timers.slow

\* the timers after checkAndUpdateStatus has put the poller on interval next
TimersAfterCheck(next) ==
    IF next = "none" THEN timers
    ELSE setInterval(clearInterval(timers, healthCheckInterval), next)

\* startHealthChecks: clears the interval it finds, issues the initial check
\* and sets the 5 second interval; BackendStatus calls it when it mounts
startHealthChecks ==
    /\ InFlightTotal < MaxInFlight
    /\ healthCheckInterval' = "fast"
    /\ timers' = setInterval(clearInterval(timers, healthCheckInterval), "fast")
    /\ inFlight' = [inFlight EXCEPT !.initial = @ + 1]
    /\ last' = [type |-> "HEALTH_START"]
    /\ UNCHANGED <<storeVars, storage>>
    /\ HealthFrame

\* an active interval fires and checkAndUpdateStatus issues a check
IntervalFires ==
    /\ TimersTotal > 0
    /\ InFlightTotal < MaxInFlight
    /\ inFlight' = [inFlight EXCEPT !.periodic = @ + 1]
    /\ last' = [type |-> "HEALTH_TICK"]
    /\ UNCHANGED <<storeVars, storage, healthCheckInterval, timers>>
    /\ HealthFrame

\* the initial check of startHealthChecks completes: only the callback runs;
\* a changed flag makes the effect run its cleanup and startHealthChecks
InitialCheckCompletes ==
    /\ inFlight.initial > 0
    /\ \E response \in HealthResponses :
          LET status == checkHealth(response) IN
            /\ Dispatch(onStatusChange(status))
            /\ healthCheckInterval' =
                  IF EffectReruns(status) THEN "fast" ELSE healthCheckInterval
            /\ timers' =
                  IF EffectReruns(status)
                  THEN setInterval(clearInterval(timers, healthCheckInterval), "fast")
                  ELSE timers
            /\ inFlight' =
                  IF EffectReruns(status) THEN inFlight
                  ELSE [inFlight EXCEPT !.initial = @ - 1]
            /\ last' = [type |-> "HEALTH_DONE", by |-> "initial", status |-> status]
    /\ HealthFrame

\* a check issued by the interval completes: the callback runs, then the
\* interval is replaced; a changed flag restarts the poller afterwards
PeriodicCheckCompletes ==
    /\ inFlight.periodic > 0
    /\ \E response \in HealthResponses :
          LET status == checkHealth(response)
              next == checkAndUpdateStatus(status, healthCheckInterval)
          IN
            /\ Dispatch(onStatusChange(status))
            /\ healthCheckInterval' = IF EffectReruns(status) THEN "fast" ELSE next
            /\ timers' =
                  IF EffectReruns(status)
                  THEN setInterval(clearInterval(TimersAfterCheck(next), next), "fast")
                  ELSE TimersAfterCheck(next)
            /\ inFlight' =
                  IF EffectReruns(status)
                  THEN [inFlight EXCEPT !.periodic = @ - 1, !.initial = @ + 1]
                  ELSE [inFlight EXCEPT !.periodic = @ - 1]
            /\ last' = [type |-> "HEALTH_DONE", by |-> "periodic", status |-> status]
    /\ HealthFrame

\* the cleanup function returned by startHealthChecks; BackendStatus calls
\* it when it unmounts
StopHealthChecks ==
    /\ healthCheckInterval # "none"
    /\ healthCheckInterval' = "none"
    /\ timers' = clearInterval(timers, healthCheckInterval)
    /\ last' = [type |-> "HEALTH_STOP"]
    /\ UNCHANGED <<storeVars, storage, inFlight>>
    /\ HealthFrame

NextHealth ==
    \/ startHealthChecks
    \/ IntervalFires
    \/ InitialCheckCompletes
    \/ PeriodicCheckCompletes
    \/ StopHealthChecks

SpecHealth == InitHealth /\ [][NextHealth]_vars

\* C19: after a health check completes while the poller runs, the backend is
\* marked ready exactly when the status is "ok", a status other than "ok"
\* leaves the poller on the 5 second interval and an "ok" status leaves it on
\* the 5 minute interval.
C19_HealthCheckOutcome ==
    (last.type = "HEALTH_DONE" /\ healthCheckInterval # "none") =>
        /\ isBackendReady = (last.status = "ok")
        /\ healthCheckInterval = (IF last.status = "ok" THEN "slow" ELSE "fast")

-----------------------------------------------------------------------------
\* C20: for the transaction list of the selected account as the editor shows
\* it, each transaction's saldo_berjalan is the sum of the amounts of the
\* transactions that precede or equal it in date order (ties in list order),
\* whatever the order of the list.
C20_EditorBalanceByDate ==
    SelectedIndex # 0 =>
        LET txs == accounts[SelectedIndex].transactions IN
          \A a \in 1..Len(txs) :
             editedTransactions[a].saldo_berjalan =
                Num(SumInts([b \in 1..Len(txs) |->
                                IF DateRank(txs, b) <= DateRank(txs, a)
                                THEN NetOf(txs[b]) ELSE 0]))

-----------------------------------------------------------------------------
\* C21: in a generated report the monthly buckets are exactly the YYYY-MM of
\* the transactions' own dates and the yearly buckets exactly their YYYY, each
\* bucket holds the income and the expense of the transactions of that
\* period and their difference as balance, both lists ascend by period key,
\* and an empty transaction list gives empty lists.
C21_BucketsByOwnDate ==
    reportOut # NotRun =>
        LET OwnPeriod(tx, byMonth) ==
                [y |-> tx.tanggal.y, m |-> IF byMonth THEN tx.tanggal.m ELSE 0]
            Total(byMonth, period, F(_)) ==
                SumInts([i \in 1..Len(reportTxs) |->
                           IF OwnPeriod(reportTxs[i], byMonth) = period
                           THEN F(reportTxs[i]) ELSE 0])
            Right(buckets, byMonth) ==
                /\ {buckets[k].period : k \in 1..Len(buckets)}
                      = {OwnPeriod(reportTxs[i], byMonth) : i \in 1..Len(reportTxs)}
                /\ \A k \in 1..Len(buckets) :
                      /\ buckets[k].income = Total(byMonth, buckets[k].period, ReportIncome)
                      /\ buckets[k].expense = Total(byMonth, buckets[k].period, ReportExpense)
                      /\ buckets[k].balance = buckets[k].income - buckets[k].expense
                /\ \A k \in 1..(Len(buckets) - 1) :
                      buckets[k].period.y * 12 + buckets[k].period.m
                         < buckets[k + 1].period.y * 12 + buckets[k + 1].period.m
        IN /\ Right(reportOut.monthly, TRUE)
           /\ Right(reportOut.yearly, FALSE)

-----------------------------------------------------------------------------
\* parseExcelDate on numeric date cells

\* largest serial of the contiguous range handed to parseExcelDate
MaxSerial == 70

\* serials around the phantom 1900-02-29 and some present-day ones
SerialInputs == {Num(n) : n \in (1..MaxSerial) \cup {36526, 45292, 45306}}

InitDate ==
    /\ accounts = initialState.accounts
    /\ currentAccount = initialState.currentAccount
    /\ isLoading = initialState.isLoading
    /\ error = initialState.error
    /\ isBackendReady = initialState.isBackendReady
    /\ storage = Snapshot(initialState)
    /\ edits = 0
    /\ page = "upload"
    /\ last = NoOp
    /\ rawTx = Undef
    /\ normOut = Undef
    /\ reportTxs = <<>>
    /\ reportOut = Undef
    /\ fileWorkbook = <<>>
    /\ fileOutcome = Undef
    /\ isSaving = FALSE
    /\ toast = NoToast
    /\ phase = "idle"
    /\ queue = <<>>
    /\ healthCheckInterval = "none"
    /\ inFlight = NoChecks
    /\ timers = NoTimers
    /\ timerRef = FALSE
    /\ reminderTimers = 0
    /\ isActive = FALSE
    /\ isReminderActive = defaultSettings.isReminderActive
    /\ reminderInterval = defaultSettings.reminderInterval
    /\ editorMounted = FALSE
    /\ isProcessing = FALSE
    /\ outstanding = <<>>
    /\ simpleForm = emptyForm
    /\ editingId = Null
    /\ deleteConfirm = Null
    /\ expectedStore = Undef
    /\ dateValue \in SerialInputs
    /\ dateOut = NotRun

ParseDate ==
    /\ dateOut = NotRun
    /\ dateOut' = parseExcelDate(dateValue)
    /\ UNCHANGED <<appVars, normVars, reportVars, parseVars, exportVars, providerVars,
                   healthVars, dateValue, reminderVars, raceVars, editorVars>>

NextDate == ParseDate

SpecDate == InitDate /\ [][NextDate]_vars

\* C22: for a serial N other than the phantom day 60, parseExcelDate returns
\* the date the spreadsheet epoch gives to N: 1899-12-31 plus N days below
\* 60 and 1899-12-30 plus N days above it, so that serial 1 is 1900-01-01,
\* serial 61 is 1900-03-01 and serial 45306 is 2024-01-15.
C22_SerialToSpreadsheetDate ==
    (dateOut # NotRun /\ dateValue.v # 60) =>
        dateOut = CivilFromDays(DaysFromCivil(1899, 12, 30) + dateValue.v
                                + (IF dateValue.v < 60 THEN 1 ELSE 0))

-----------------------------------------------------------------------------
\* C23: whatever the interleaving of starts, cleanups, timer ticks and check
\* responses, at most one health-check interval timer is active, none is
\* active while the poller is stopped, and a check that completes while the
\* poller is stopped leaves no timer active.
C23_AtMostOnePollingTimer ==
    /\ [](TimersTotal <= 1 /\ (healthCheckInterval = "none" => TimersTotal = 0))
    /\ [][(healthCheckInterval = "none" /\ last'.type = "HEALTH_DONE")
             => TimersTotal' = 0]_healthVars

\* a periodic check was answered after the cleanup, with no start since
C23_Witness ==
    /\ last.type = "HEALTH_DONE"
    /\ last.by = "periodic"
    /\ healthCheckInterval = "none"
    /\ TimersTotal = 0

\* C30: the status callback is not invoked while the poller is stopped:
\* no check completes and reports its status after the cleanup has run.
C30_NoCallbackAfterCleanup ==
    ~(last.type = "HEALTH_DONE" /\ healthCheckInterval = "none")

-----------------------------------------------------------------------------
\* The export reminder: useExportReminder and the effect and handlers of
\* EditorPage that start and stop it.

\* the hook instance as its callbacks see it: the handle in timerRef, the
\* active timers, the rendered isActive, the setIsActive calls not yet
\* rendered and whether showReminder ran
ReminderNow ==
    [timerRef |-> timerRef, timers |-> reminderTimers, isActive |-> isActive,
     queued |-> <<>>, shown |-> FALSE]

\* a startReminder that does not clear the timer it finds
startReminderKeepsTimer(r) ==
    [r EXCEPT !.timers = @ + 1, !.timerRef = TRUE,
              !.queued = Append(@, TRUE), !.shown = TRUE]

startReminder(r) ==
    [r EXCEPT !.timers = (IF r.timerRef THEN @ - 1 ELSE @) + 1,
              !.timerRef = TRUE,
              !.queued = Append(@, TRUE),
              !.shown = TRUE]

stopReminder(r) ==
    IF r.timerRef
    THEN [r EXCEPT !.timers = @ - 1, !.timerRef = FALSE, !.queued = Append(@, FALSE)]
    ELSE r

\* the hook's effect on [intervalMs, isActive, ...]: its body
ReminderEffect(r) ==
    IF r.isActive THEN startReminder(stopReminder(r)) ELSE r

\* the effect of EditorPage on [isReminderActive, reminderInterval, ...]: its body
EditorEffect(r, active) ==
    IF active THEN startReminder(r) ELSE stopReminder(r)

RECURSIVE SettleReminder(_)
\* React renders the queued setIsActive calls; when isActive changed, the
\* hook's effect runs its cleanup (stopReminder) and its body, and so on
\* until a render changes nothing
SettleReminder(r) ==
    LET next == IF r.queued = <<>> THEN r.isActive ELSE r.queued[Len(r.queued)]
        rendered == [r EXCEPT !.isActive = next, !.queued = <<>>]
    IN IF next = r.isActive THEN rendered
       ELSE SettleReminder(ReminderEffect(stopReminder(rendered)))

ReminderToast == Toast("reminder", "Jangan lupa untuk mengekspor perubahan Anda!")

\* the hook instance after a handler and the renders that follow it, and the
\* toast on top: the one the handler shows after the reminder calls, if any
CommitReminder(r, after) ==
    LET settled == SettleReminder(r) IN
    /\ timerRef' = settled.timerRef
    /\ reminderTimers' = settled.timers
    /\ isActive' = settled.isActive
    /\ toast' = IF after # NoToast THEN after
               ELSE IF settled.shown THEN ReminderToast ELSE toast

ReminderIntervals == {1, 5}

\* what handleSaveTransactions is given by the transaction editor
SavedLists == {<<>>, <<TxCanon>>, <<TxCanon, TxCanon2>>}

InitReminder ==
    /\ \E pre \in PreStates :
          /\ accounts = pre.accounts
          /\ currentAccount = pre.currentAccount
          /\ isLoading = pre.isLoading
          /\ error = pre.error
          /\ isBackendReady = pre.isBackendReady
          /\ storage = Snapshot(pre)
    /\ edits = 0
    /\ page = "upload"
    /\ last = NoOp
    /\ rawTx = Undef
    /\ normOut = Undef
    /\ reportTxs = <<>>
    /\ reportOut = Undef
    /\ fileWorkbook = <<>>
    /\ fileOutcome = Undef
    /\ isSaving = FALSE
    /\ toast = NoToast
    /\ phase = "idle"
    /\ queue = <<>>
    /\ healthCheckInterval = "none"
    /\ inFlight = NoChecks
    /\ timers = NoTimers
    /\ dateValue = Undef
    /\ dateOut = Undef
    /\ timerRef = FALSE
    /\ reminderTimers = 0
    /\ isActive = FALSE
    /\ isReminderActive = defaultSettings.isReminderActive
    /\ reminderInterval = defaultSettings.reminderInterval
    /\ editorMounted = FALSE
    /\ isProcessing = FALSE
    /\ outstanding = <<>>
    /\ simpleForm = emptyForm
    /\ editingId = Null
    /\ deleteConfirm = Null
    /\ expectedStore = Undef

ReminderFrame ==
    UNCHANGED <<edits, normVars, reportVars, parseVars, isSaving, providerVars,
                healthVars, dateVars, raceVars, editorVars>>

\* EditorPage mounts: a new hook instance, then the effect of EditorPage
MountEditor ==
    /\ ~editorMounted
    /\ editorMounted' = TRUE
    /\ page' = "editor"
    /\ CommitReminder(EditorEffect([ReminderNow EXCEPT !.timerRef = FALSE,
                                                       !.isActive = FALSE],
                                   isReminderActive), NoToast)
    /\ last' = [type |-> "EDITOR_MOUNT"]
    /\ UNCHANGED <<storeVars, storage, isReminderActive, reminderInterval>>
    /\ ReminderFrame

\* EditorPage unmounts: the cleanups of the hook's two effects and of the
\* effect of EditorPage
UnmountEditor ==
    /\ editorMounted
    /\ editorMounted' = FALSE
    /\ page' = "upload"
    /\ CommitReminder(stopReminder(stopReminder(stopReminder(ReminderNow))), NoToast)
    /\ last' = [type |-> "EDITOR_UNMOUNT"]
    /\ UNCHANGED <<storeVars, storage, isReminderActive, reminderInterval>>
    /\ ReminderFrame

\* toggleReminder: with the editor mounted its effect runs cleanup and body
ToggleReminder ==
    /\ isReminderActive' = ~isReminderActive
    /\ IF editorMounted
       THEN CommitReminder(EditorEffect(stopReminder(ReminderNow), ~isReminderActive), NoToast)
       ELSE UNCHANGED <<timerRef, reminderTimers, isActive, toast>>
    /\ last' = [type |-> "TOGGLE_REMINDER"]
    /\ UNCHANGED <<storeVars, storage, page, reminderInterval, editorMounted>>
    /\ ReminderFrame

\* setReminderInterval: the cleanups of the hook's effect and of the effect
\* of EditorPage run, then their bodies, in declaration order
ChangeInterval ==
    /\ \E interval \in ReminderIntervals \ {reminderInterval} :
          reminderInterval' = interval
    /\ IF editorMounted
       THEN CommitReminder(
               EditorEffect(ReminderEffect(stopReminder(stopReminder(ReminderNow))),
                            isReminderActive), NoToast)
       ELSE UNCHANGED <<timerRef, reminderTimers, isActive, toast>>
    /\ last' = [type |-> "SET_REMINDER_INTERVAL"]
    /\ UNCHANGED <<storeVars, storage, page, isReminderActive, editorMounted>>
    /\ ReminderFrame

\* handleSaveTransactions of EditorPage, reminder reset included
SaveTransactions ==
    /\ editorMounted
    /\ IF SelectedIndex = 0
       THEN /\ toast' = Toast("error", "Tidak ada akun yang dipilih")
            /\ UNCHANGED <<storeVars, storage, timerRef, reminderTimers, isActive>>
       ELSE /\ \E txs \in SavedLists : handleSaveTransactions(txs)
            /\ CommitReminder(IF isReminderActive
                              THEN startReminder(stopReminder(ReminderNow))
                              ELSE ReminderNow,
                              Toast("success", "Transaksi disimpan"))
    /\ last' = [type |-> "SAVE_TRANSACTIONS"]
    /\ UNCHANGED <<page, isReminderActive, reminderInterval, editorMounted>>
    /\ ReminderFrame

\* a caller of the hook calls startReminder
CallStartReminder ==
    /\ editorMounted
    /\ CommitReminder(startReminder(ReminderNow), NoToast)
    /\ last' = [type |-> "START_REMINDER"]
    /\ UNCHANGED <<storeVars, storage, page, isReminderActive, reminderInterval,
                   editorMounted>>
    /\ ReminderFrame

\* a caller of the hook calls stopReminder
CallStopReminder ==
    /\ editorMounted
    /\ CommitReminder(stopReminder(ReminderNow), NoToast)
    /\ last' = [type |-> "STOP_REMINDER"]
    /\ UNCHANGED <<storeVars, storage, page, isReminderActive, reminderInterval,
                   editorMounted>>
    /\ ReminderFrame

\* an active interval timer fires: showReminder
ReminderFires ==
    /\ reminderTimers > 0
    /\ toast' = ReminderToast
    /\ last' = [type |-> "REMINDER"]
    /\ UNCHANGED <<storeVars, storage, page, reminderVars>>
    /\ ReminderFrame

NextReminder ==
    \/ MountEditor
    \/ UnmountEditor
    \/ ToggleReminder
    \/ ChangeInterval
    \/ SaveTransactions
    \/ CallStartReminder
    \/ CallStopReminder
    \/ ReminderFires

SpecReminder == InitReminder /\ [][NextReminder]_vars

\* C24: whatever the sequence of starts, stops, interval changes, toggles,
\* saves, mounts and unmounts, at most one export-reminder interval timer is
\* active, and none is active after stopReminder, after reminders were
\* switched off or while the editor is unmounted.
C24_AtMostOneReminderTimer ==
    /\ reminderTimers <= 1
    /\ (last.type \in {"STOP_REMINDER", "EDITOR_UNMOUNT"}) => reminderTimers = 0
    /\ (last.type = "TOGGLE_REMINDER" /\ ~isReminderActive) => reminderTimers = 0
    /\ ~editorMounted => reminderTimers = 0

\* the reminder was stopped while running, after an interval change
C24_Witness ==
    /\ last.type = "STOP_REMINDER"
    /\ reminderInterval = 1
    /\ isReminderActive
    /\ reminderTimers = 0
    /\ ~isActive

-----------------------------------------------------------------------------
\* Asynchronous operations of the pages: uploads from the file picker and by
\* drag-and-drop, health checks and exports, awaiting their results together.

\* operations that may await their result at the same time
MaxOutstanding == 2

\* operations started in one run
MaxAttempts == 2

Op(kind, via, outcome, closureCurrent) ==
    [kind |-> kind, via |-> via, outcome |-> outcome, closureCurrent |-> closureCurrent]

\* an unreadable file, a workbook with no usable sheet, one with the account
\* Kas and one with the account Bank
RaceFiles ==
    {File(FALSE, <<>>),
     File(TRUE, <<Sheet("Kas", <<HeaderOk>>)>>),
     File(TRUE, <<Sheet("Kas", SheetA)>>),
     File(TRUE, <<Sheet("Kas", <<>>), Sheet("Bank", SheetAB)>>)}

\* what an operation dispatches before its first await
BeginDispatches(op) ==
    IF op.kind = "upload" THEN <<Head(UploadDispatches(op.outcome, op.closureCurrent))>>
    ELSE <<>>

\* what an operation dispatches once its result has arrived
SettleDispatches(op) ==
    IF op.kind = "upload" THEN Tail(UploadDispatches(op.outcome, op.closureCurrent))
    ELSE IF op.kind = "health" THEN onStatusChange(checkHealth(op.outcome))
    ELSE ExportFailureDispatches

RemoveAt(seq, i) == SubSeq(seq, 1, i - 1) \o SubSeq(seq, i + 1, Len(seq))

InitAsync ==
    /\ \E pre \in ParsePreStates :
          /\ accounts = pre.accounts
          /\ currentAccount = pre.currentAccount
          /\ isLoading = pre.isLoading
          /\ error = pre.error
          /\ isBackendReady = pre.isBackendReady
          /\ storage = Snapshot(pre)
          /\ expectedStore = pre
    /\ edits = 0
    /\ page = "upload"
    /\ last = NoOp
    /\ rawTx = Undef
    /\ normOut = Undef
    /\ reportTxs = <<>>
    /\ reportOut = Undef
    /\ fileWorkbook = <<>>
    /\ fileOutcome = Undef
    /\ isSaving = FALSE
    /\ toast = NoToast
    /\ phase = "idle"
    /\ queue = <<>>
    /\ healthCheckInterval = "none"
    /\ inFlight = NoChecks
    /\ timers = NoTimers
    /\ dateValue = Undef
    /\ dateOut = Undef
    /\ timerRef = FALSE
    /\ reminderTimers = 0
    /\ isActive = FALSE
    /\ isReminderActive = defaultSettings.isReminderActive
    /\ reminderInterval = defaultSettings.reminderInterval
    /\ editorMounted = FALSE
    /\ isProcessing = FALSE
    /\ outstanding = <<>>
    /\ simpleForm = emptyForm
    /\ editingId = Null
    /\ deleteConfirm = Null

AsyncFrame ==
    UNCHANGED <<normVars, reportVars, parseVars, providerVars, healthVars, dateVars,
                reminderVars, editorVars>>

\* an operation starts: its first dispatches, and where the store would end
\* with the operations completing in the order they started
Begin(op) ==
    /\ Dispatch(BeginDispatches(op))
    /\ outstanding' = Append(outstanding, op)
    /\ expectedStore' = ReduceAll(expectedStore, BeginDispatches(op) \o SettleDispatches(op))

\* onFileChange or handleDrop is given a file: validateFile, then
\* handleFileUpload up to its first await
AttemptUpload(via, file, valid) ==
    IF valid
    THEN /\ Begin(Op("upload", via, handleFileUpload(file), currentAccount))
         /\ isProcessing' = TRUE
         /\ last' = [type |-> "UPLOAD_BEGIN"]
         /\ UNCHANGED toast
    ELSE /\ toast' = Toast("error", "Hanya file Excel (.xlsx, .xls) yang didukung")
         /\ last' = [type |-> "UPLOAD_REJECTED"]
         /\ UNCHANGED <<storeVars, storage, raceVars>>

\* the file input, disabled while isProcessing
onFileChange ==
    /\ ~isProcessing
    /\ page = "upload"
    /\ edits < MaxAttempts
    /\ Len(outstanding) < MaxOutstanding
    /\ \E file \in RaceFiles, valid \in BOOLEAN : AttemptUpload("picker", file, valid)
    /\ edits' = edits + 1
    /\ UNCHANGED <<page, isSaving>>
    /\ AsyncFrame

\* the drop zone
handleDrop ==
    /\ page = "upload"
    /\ edits < MaxAttempts
    /\ Len(outstanding) < MaxOutstanding
    /\ \E file \in RaceFiles, valid \in BOOLEAN : AttemptUpload("drop", file, valid)
    /\ edits' = edits + 1
    /\ UNCHANGED <<page, isSaving>>
    /\ AsyncFrame

\* a handler without its finally block
setIsProcessingSkipped(processing) == processing

\* finally { setIsProcessing(false) } of onFileChange / handleDrop
setIsProcessingFinally(processing) == FALSE

\* handleFileUpload returns: the rest of onFileChange / handleDrop
UploadSettles ==
    /\ \E i \in 1..Len(outstanding) :
          LET op == outstanding[i] IN
            /\ op.kind = "upload"
            /\ Dispatch(SettleDispatches(op))
            /\ outstanding' = RemoveAt(outstanding, i)
            /\ toast' = IF op.outcome.error = ""
                        THEN Toast("success", "File berhasil diunggah dan diproses")
                        ELSE Toast("error", "Tidak ada data yang dapat diproses dari file ini")
            /\ page' = IF op.outcome.error = "" THEN "editor" ELSE page
            /\ last' = [type |-> IF op.outcome.error = "" THEN "UPLOAD_OK"
                                 ELSE "UPLOAD_FAILED"]
    /\ isProcessing' = setIsProcessingFinally(isProcessing)
    /\ UNCHANGED <<edits, isSaving, expectedStore>>
    /\ AsyncFrame

\* the poller issues a health check
BeginHealthCheck ==
    /\ edits < MaxAttempts
    /\ Len(outstanding) < MaxOutstanding
    /\ \E response \in HealthResponses : Begin(Op("health", "poller", response, Null))
    /\ edits' = edits + 1
    /\ last' = [type |-> "HEALTH_BEGIN"]
    /\ UNCHANGED <<page, isSaving, toast, isProcessing>>
    /\ AsyncFrame

HealthCheckSettles ==
    /\ \E i \in 1..Len(outstanding) :
          /\ outstanding[i].kind = "health"
          /\ Dispatch(SettleDispatches(outstanding[i]))
          /\ outstanding' = RemoveAt(outstanding, i)
    /\ last' = [type |-> "HEALTH_END"]
    /\ UNCHANGED <<edits, page, isSaving, toast, isProcessing, expectedStore>>
    /\ AsyncFrame

\* handleExportToExcel up to its request
BeginExport ==
    /\ page = "editor"
    /\ Len(accounts) > 0
    /\ ~isSaving
    /\ edits < MaxAttempts
    /\ Len(outstanding) < MaxOutstanding
    /\ \E ok \in BOOLEAN : Begin(Op("export", "editor", [ok |-> ok], Null))
    /\ isSaving' = TRUE
    /\ edits' = edits + 1
    /\ last' = [type |-> "EXPORT_BEGIN"]
    /\ UNCHANGED <<page, toast, isProcessing>>
    /\ AsyncFrame

ExportSettles ==
    /\ \E i \in 1..Len(outstanding) :
          /\ outstanding[i].kind = "export"
          /\ Dispatch(SettleDispatches(outstanding[i]))
          /\ outstanding' = RemoveAt(outstanding, i)
          /\ toast' = IF outstanding[i].outcome.ok
                      THEN Toast("success", "Data berhasil diekspor")
                      ELSE Toast("error", "Gagal mengekspor data")
    /\ isSaving' = FALSE
    /\ last' = [type |-> "EXPORT_END"]
    /\ UNCHANGED <<edits, page, isProcessing, expectedStore>>
    /\ AsyncFrame

\* a navigation link of the layout
GoToPage ==
    /\ \E target \in {"upload", "editor"} :
          /\ target # page
          /\ page' = target
    /\ last' = [type |-> "NAVIGATE"]
    /\ UNCHANGED <<storeVars, storage, edits, isSaving, toast, raceVars>>
    /\ AsyncFrame

NextAsync ==
    \/ onFileChange
    \/ handleDrop
    \/ UploadSettles
    \/ BeginHealthCheck
    \/ HealthCheckSettles
    \/ BeginExport
    \/ ExportSettles
    \/ GoToPage

SpecAsync == InitAsync /\ [][NextAsync]_vars

\* C25: once every outstanding operation has completed, accounts,
\* currentAccount, isLoading and isBackendReady are what they are when the
\* operations complete in the order they started: the order of completion
\* makes no difference.
C25_CompletionOrderIrrelevant ==
    outstanding = <<>> =>
        /\ accounts = expectedStore.accounts
        /\ currentAccount = expectedStore.currentAccount
        /\ isLoading = expectedStore.isLoading
        /\ isBackendReady = expectedStore.isBackendReady

UploadPending == \E i \in 1..Len(outstanding) : outstanding[i].kind = "upload"

\* the promises handleFileUpload awaits (the xlsx import and the file read)
\* settle, so a started upload gets its result: weak fairness of
\* UploadSettles, which is enabled exactly while an upload is pending
SpecAsyncFair ==
    /\ SpecAsync
    /\ ([]<>(~UploadPending)
        \/ []<><<last'.type \in {"UPLOAD_OK", "UPLOAD_FAILED"}>>_outstanding)

\* C29: an upload attempt from the file picker or the drop zone, whether it
\* succeeds or fails, ends with isProcessing and isLoading false, and
\* whenever an upload is under way a state follows in which no upload is
\* under way and both flags are false.
C29_UploadEndsIdle ==
    /\ []((last.type \in {"UPLOAD_OK", "UPLOAD_FAILED"}) => (~isProcessing /\ ~isLoading))
    /\ (UploadPending ~> (~UploadPending /\ ~isProcessing /\ ~isLoading))

\* a dropped file failed to parse after another upload had been started
C29_Witness ==
    /\ last.type = "UPLOAD_FAILED"
    /\ edits = 2
    /\ outstanding = <<>>
    /\ error # Null
    /\ ~isProcessing
    /\ ~isLoading

-----------------------------------------------------------------------------
(* SpecEditor: the entry form and the delete dialog of TransactionEditor, over
   accounts read from an uploaded workbook *)

\* (n).toString() for the amounts of the model's vocabulary
NumToStr(n) ==
    CASE n = 0 -> "0"
      [] n = 1 -> "1"
      [] n = 2 -> "2"
      [] n = 3 -> "3"
      [] n = 4 -> "4"
      [] n = 5 -> "5"
      [] n = 12 -> "12"
      [] OTHER -> "<number>"

\* Object.keys(v)
ObjectKeys(v) ==
    IF v.t = "object" THEN [i \in 1..Len(v.m) |-> v.m[i].k] ELSE <<>>

\* v?.[k]
Lookup(v, k) ==
    IF v.t = "object" /\ \E i \in 1..Len(v.m) : v.m[i].k = k
    THEN v.m[CHOOSE i \in 1..Len(v.m) : v.m[i].k = k].v
    ELSE Undef

\* keys[0] || other
FirstKeyOr(keys, other) ==
    IF keys # <<>> /\ keys[1] # "" THEN keys[1] ELSE other

\* the form handleEdit fills in from a transaction
handleEdit(tx) ==
    LET penerimaan == OrElse(tx.penerimaan, EmptyObj)
        pengeluaran == OrElse(tx.pengeluaran, EmptyObj)
        firstCategory == FirstKeyOr(ObjectKeys(penerimaan),
                                    FirstKeyOr(ObjectKeys(pengeluaran), ""))
        amount == OrElse(Lookup(tx.penerimaan, firstCategory),
                         OrElse(Lookup(tx.pengeluaran, firstCategory), Num(0)))
        tipe == IF Len(ObjectKeys(penerimaan)) > 0 THEN "penerimaan" ELSE "pengeluaran"
    IN Form(tx.tanggal, tipe, firstCategory, OrElse(tx.uraian, Str("")).s,
            NumToStr(amount.v))

\* editedTransactions.find(tx => tx.id === id): its index, 0 for undefined
FindTx(txs, id) ==
    IF \E i \in 1..Len(txs) : txs[i].id = id
    THEN CHOOSE i \in 1..Len(txs) :
            /\ txs[i].id = id
            /\ \A j \in 1..(i - 1) : txs[j].id # id
    ELSE 0

\* `updated` of handleSaveTransaction
SavedList(txs, editing, form, fresh) ==
    IF Truthy(editing)
    THEN IF FindTx(txs, editing) # 0
         THEN [j \in 1..Len(txs) |->
                  IF txs[j].id = editing THEN FormTx(txs[FindTx(txs, editing)].id, form)
                  ELSE txs[j]]
         ELSE txs
    ELSE Append(txs, FormTx(Str(fresh), form))

\* a delete that drops the head of the list
removeFirst(txs, id) == Tail(txs)

\* editedTransactions.filter(t => t.id !== deleteConfirm.id)
removeSelected(txs, id) == SelectSeq(txs, LAMBDA t : t.id # id)

\* expense 3, described
RowC == <<IsoDate(2024, 1, 20), Str("Sewa"), Num(0), Num(0), Num(3)>>

\* income 5, described
RowD == <<IsoDate(2024, 1, 25), Str("Gaji"), Num(0), Num(5), Num(0)>>

EditorWorkbooks ==
    {<<Sheet("Kas", <<HeaderOk, RowD, RowB, RowC>>), Sheet("Bank", <<HeaderOk, RowC>>)>>}

\* the store after the upload of a workbook and the selection of an account
EditorPreStates ==
    UNION {{ReduceAll(initialState,
                      UploadDispatches(handleFileUpload(File(TRUE, w)), Null)
                      \o <<SetCurrentAccount(Str(w[k].name))>>) : k \in 1..Len(w)} :
           w \in EditorWorkbooks}

FormChanges ==
    {<<"kategori", "bonus">>, <<"uraian", "Bonus">>, <<"jumlah", "4">>}

InitEditor ==
    /\ \E pre \in EditorPreStates :
          /\ accounts = pre.accounts
          /\ currentAccount = pre.currentAccount
          /\ isLoading = pre.isLoading
          /\ error = pre.error
          /\ isBackendReady = pre.isBackendReady
          /\ storage = Snapshot(pre)
    /\ edits = 0
    /\ page = "editor"
    /\ last = NoOp
    /\ rawTx = Undef
    /\ normOut = Undef
    /\ reportTxs = <<>>
    /\ reportOut = Undef
    /\ fileWorkbook = <<>>
    /\ fileOutcome = Undef
    /\ isSaving = FALSE
    /\ toast = NoToast
    /\ phase = "idle"
    /\ queue = <<>>
    /\ healthCheckInterval = "none"
    /\ inFlight = NoChecks
    /\ timers = NoTimers
    /\ dateValue = Undef
    /\ dateOut = Undef
    /\ timerRef = FALSE
    /\ reminderTimers = 0
    /\ isActive = FALSE
    /\ isReminderActive = defaultSettings.isReminderActive
    /\ reminderInterval = defaultSettings.reminderInterval
    /\ editorMounted = FALSE
    /\ isProcessing = FALSE
    /\ outstanding = <<>>
    /\ expectedStore = Undef
    /\ simpleForm = emptyForm
    /\ editingId = Null
    /\ deleteConfirm = Null

EditorFrame ==
    UNCHANGED <<page, normVars, reportVars, parseVars, isSaving, providerVars, healthVars,
                dateVars, reminderVars, raceVars>>

\* the pencil button of a row: handleEdit
OpenForEdit ==
    /\ SelectedIndex # 0
    /\ deleteConfirm = Null
    /\ edits < MaxEdits
    /\ \E k \in 1..Len(editedTransactions) :
          /\ simpleForm' = handleEdit(editedTransactions[k])
          /\ editingId' = editedTransactions[k].id
    /\ last' = [type |-> "EDIT_OPEN"]
    /\ UNCHANGED <<storeVars, storage, edits, toast, deleteConfirm>>
    /\ EditorFrame

\* a field of the form is typed over: handleInputChange
handleInputChange ==
    /\ SelectedIndex # 0
    /\ deleteConfirm = Null
    /\ edits < MaxEdits
    /\ \E change \in FormChanges :
          /\ simpleForm[change[1]] # change[2]
          /\ simpleForm' = [simpleForm EXCEPT ![change[1]] = change[2]]
    /\ last' = [type |-> "FORM_CHANGE"]
    /\ UNCHANGED <<storeVars, storage, edits, toast, editingId, deleteConfirm>>
    /\ EditorFrame

\* the form is submitted: handleSaveTransaction
handleSaveTransaction ==
    /\ SelectedIndex # 0
    /\ deleteConfirm = Null
    /\ edits < MaxEdits
    /\ IF FormValid(simpleForm)
       THEN /\ handleSaveTransactions(
                  SavedList(editedTransactions, editingId, simpleForm, NewTxId(edits + 1)))
            /\ toast' = Toast("success", "Transaksi disimpan")
            /\ simpleForm' = resetForm
            /\ editingId' = Null
            /\ last' = [type |-> "EDITOR_SAVE"]
       ELSE /\ toast' = Toast("error",
                              "Terdapat kesalahan pada form. Silakan periksa kembali.")
            /\ last' = [type |-> "EDITOR_REJECT"]
            /\ UNCHANGED <<storeVars, storage, simpleForm, editingId>>
    /\ edits' = edits + 1
    /\ UNCHANGED deleteConfirm
    /\ EditorFrame

\* the bin button of a row: confirmDeleteClick opens the dialog
confirmDeleteClick ==
    /\ SelectedIndex # 0
    /\ deleteConfirm = Null
    /\ edits < MaxEdits
    /\ \E k \in 1..Len(editedTransactions) : deleteConfirm' = editedTransactions[k].id
    /\ last' = [type |-> "DELETE_ASK"]
    /\ UNCHANGED <<storeVars, storage, edits, toast, simpleForm, editingId>>
    /\ EditorFrame

\* the dialog is confirmed; while it is open nothing behind it can be used
confirmDelete ==
    /\ SelectedIndex # 0
    /\ Truthy(deleteConfirm)
    /\ edits < MaxEdits
    /\ handleSaveTransactions(removeSelected(editedTransactions, deleteConfirm))
    /\ deleteConfirm' = Null
    /\ toast' = Toast("success", "Transaksi berhasil dihapus")
    /\ last' = [type |-> "EDITOR_DELETE"]
    /\ edits' = edits + 1
    /\ UNCHANGED <<simpleForm, editingId>>
    /\ EditorFrame

\* the dialog is dismissed: onClose
closeDeleteDialog ==
    /\ Truthy(deleteConfirm)
    /\ edits < MaxEdits
    /\ deleteConfirm' = Null
    /\ last' = [type |-> "DELETE_CANCEL"]
    /\ UNCHANGED <<storeVars, storage, edits, toast, simpleForm, editingId>>
    /\ EditorFrame

\* another account is picked in the selector; the editor stays mounted
EditorSelectAccount ==
    /\ deleteConfirm = Null
    /\ edits < MaxEdits
    /\ \E i \in 1..Len(accounts) :
          /\ Str(accounts[i].name) # currentAccount
          /\ Dispatch(<<SetCurrentAccount(Str(accounts[i].name))>>)
    /\ last' = [type |-> "SELECT_ACCOUNT"]
    /\ UNCHANGED <<edits, toast, editorVars>>
    /\ EditorFrame

NextEditor ==
    \/ OpenForEdit
    \/ handleInputChange
    \/ handleSaveTransaction
    \/ confirmDeleteClick
    \/ confirmDelete
    \/ closeDeleteDialog
    \/ EditorSelectAccount

SpecEditor == InitEditor /\ [][NextEditor]_vars

\* the transaction the form was opened on, as index into the working list
EditingIndex == FindTx(editedTransactions, editingId)

\* the form still holds what handleEdit put into it
FormUntouched ==
    /\ Truthy(editingId)
    /\ EditingIndex # 0
    /\ simpleForm = handleEdit(editedTransactions[EditingIndex])

\* C27: a save of a form that still holds what handleEdit put into it leaves
\* the selected account with the same transaction ids in the same order, and
\* the edited transaction with the same date, description, income map and
\* expense map.
C27_ResaveUnchanged ==
    [][(/\ FormUntouched
        /\ last'.type = "EDITOR_SAVE"
        /\ edits' # edits)
       => LET before == accounts[SelectedIndex].transactions
              after == accounts'[SelectedIndex].transactions
          IN /\ Len(after) = Len(before)
             /\ \A j \in 1..Len(before) : after[j].id = before[j].id
             /\ after[EditingIndex].tanggal = before[EditingIndex].tanggal
             /\ after[EditingIndex].uraian = before[EditingIndex].uraian
             /\ after[EditingIndex].penerimaan = before[EditingIndex].penerimaan
             /\ after[EditingIndex].pengeluaran = before[EditingIndex].pengeluaran]_vars

\* this step is the confirmation of the delete dialog
DeleteStep ==
    /\ Truthy(deleteConfirm)
    /\ last'.type = "EDITOR_DELETE"
    /\ edits' # edits

\* the selected account's stored transactions other than the one awaiting
\* confirmation
OthersBefore ==
    SelectSeq(accounts[SelectedIndex].transactions, LAMBDA t : t.id # deleteConfirm)

\* two transactions with the same id, date, description and category maps
SameEntry(a, b) ==
    /\ a.id = b.id
    /\ a.tanggal = b.tanggal
    /\ a.uraian = b.uraian
    /\ a.penerimaan = b.penerimaan
    /\ a.pengeluaran = b.pengeluaran

\* every account but the selected one is as it was
OtherAccountsUnchanged ==
    /\ Len(accounts') = Len(accounts)
    /\ \A i \in 1..Len(accounts) : i # SelectedIndex => accounts'[i] = accounts[i]

\* C28 as stated: confirming a delete removes exactly the selected transaction,
\* every other transaction of the selected account is stored afterwards as the
\* same record, field for field, in the same relative order, and all other
\* accounts are unchanged.
C28_DeleteKeepsEveryField ==
    [][DeleteStep
       => /\ Len(OthersBefore) = Len(accounts[SelectedIndex].transactions) - 1
          /\ accounts'[SelectedIndex].transactions = OthersBefore
          /\ OtherAccountsUnchanged]_vars

\* C28, amended: confirming a delete removes exactly the selected transaction,
\* every other transaction of the selected account keeps its id, date,
\* description, income map and expense map and its relative order, with
\* jumlah recomputed from the maps and saldo_berjalan reset to 0, and all
\* other accounts are unchanged.
C28_DeleteRemovesOnlySelected ==
    [][DeleteStep
       => LET after == accounts'[SelectedIndex].transactions
          IN /\ Len(OthersBefore) = Len(accounts[SelectedIndex].transactions) - 1
             /\ Len(after) = Len(OthersBefore)
             /\ \A j \in 1..Len(OthersBefore) :
                   /\ SameEntry(after[j], OthersBefore[j])
                   /\ after[j].jumlah = Num(NetOf(OthersBefore[j]))
                   /\ after[j].saldo_berjalan = Num(0)
             /\ OtherAccountsUnchanged]_vars

\* the middle transaction of Kas was deleted while Bank is in the store
C28_Witness ==
    /\ last.type = "EDITOR_DELETE"
    /\ Len(accounts) = 2
    /\ currentAccount = Str("Kas")
    /\ Len(accounts[1].transactions) = 2
    /\ accounts[1].transactions[1].id = Str("tx-u1")
    /\ accounts[1].transactions[2].id = Str("tx-u3")
    /\ Len(accounts[2].transactions) = 1

=============================================================================
